---------------------------- MODULE Spec2Model ----------------------------
(***************************************************************************)
(* A model of Hanoi (src/src/main.rs): a directory-scoped text-search      *)
(* server with a thin client.  The module holds one state machine per      *)
(* subsystem of the program, all over the same variables:                  *)
(*                                                                         *)
(*   SpecFilter  filter_path / parse_filter, applied to drawn inputs       *)
(*   SpecFind    Indexer2::find, applied to drawn inputs                   *)
(*   SpecIndex   Indexer2::handle_event and queries against one index      *)
(*   SpecBuild   Indexer2::build: the walker, the work queue, the workers  *)
(*   Spec        server_main's accept loop, its children and client_main   *)
(*                                                                         *)
(* Strings are sequences of one-character strings; a path is a sequence of *)
(* components, each component a string, as std::path::Path compares them.  *)
(***************************************************************************)
EXTENDS Integers, Sequences, FiniteSets, TLC

VARIABLES
    call,           \* the arguments of the function under application
    ret,            \* its result as an Option, None before the application
    disk,           \* the filesystem: what each path is and holds
    filters,        \* the Vec<Filter> read from .hanoi, fixed after start-up
    files,          \* Indexer2::files, the index: path -> contents
    last,           \* the step just taken on the index, with its input and output
    gone,           \* the indexed paths whose deletion the watcher has reported
    work_queue,     \* build's WorkQueue: paths and has_stopped
    qlock,          \* the holder of the work queue's mutex, as an Option
    workers,        \* build's worker threads: position, paths, files, should_stopped
    walker,         \* build's own thread: position, visit_dirs' stack, staged paths
    additional_dirs,\* per server, the [additional_dirs] of its .hanoi, in order
    servers,        \* per server, its request handler: position and locals
    incoming,       \* per server, the connections its listener has yet to accept
    links,          \* per child, the parent's end of the socket it forwarded on
    peers,          \* per client, client_main's position, request and output
    reply,          \* per client, the connections made to its reply channel
    sockets,        \* the local-socket names that are bound, each with its holder
    starters,       \* per started server process, server_main's position and locals
    index_mutex,    \* the holder of the Mutex around the published index, as an Option
    handler,        \* the accept loop's thread while it queries the index
    watcher         \* the watcher's thread while it applies an event

pureVars == <<call, ret>>
indexVars == <<disk, filters, files, last, gone>>
buildVars == <<work_queue, qlock, workers, walker>>
serveVars == <<additional_dirs, servers, incoming, links, peers, reply>>
startVars == <<sockets, starters>>
lockVars == <<index_mutex, handler, watcher>>

vars == <<call, ret, disk, filters, files, last, gone,
          work_queue, qlock, workers, walker,
          additional_dirs, servers, incoming, links, peers, reply,
          sockets, starters, index_mutex, handler, watcher>>

\* Option<T>: None is the empty sequence, Some(x) the one-element sequence
None == <<>>
Some(x) == <<x>>
unwrap(o) == o[1]

-----------------------------------------------------------------------------
(* str: the string operations the program uses *)

starts_with(s, p) == Len(p) <= Len(s) /\ SubSeq(s, 1, Len(p)) = p

ends_with(s, p) == Len(p) <= Len(s) /\ SubSeq(s, Len(s) - Len(p) + 1, Len(s)) = p

\* the byte offsets (0-based) at which p occurs in s
occurrences(s, p) ==
    {i \in 0 .. (Len(s) - Len(p)) : SubSeq(s, i + 1, i + Len(p)) = p}

contains(s, p) == occurrences(s, p) # {}

RECURSIVE join(_, _)
join(comps, sep) ==
    IF comps = <<>> THEN <<>>
    ELSE IF Len(comps) = 1 THEN comps[1]
    ELSE comps[1] \o sep \o join(Tail(comps), sep)

\* Path::display().to_string() of a path held as its components
display(path) == join(path, <<"/">>)

\* Path::strip_prefix compares whole components; None when root is no prefix
strip_prefix(path, root) ==
    IF Len(root) <= Len(path) /\ SubSeq(path, 1, Len(root)) = root
    THEN Some(SubSeq(path, Len(root) + 1, Len(path)))
    ELSE None

-----------------------------------------------------------------------------
(* The filter engine *)

\* struct Filter
Filter(inc, sw, ew, od, pat) ==
    [should_include |-> inc, should_start_with |-> sw, should_end_with |-> ew,
     only_dir |-> od, pattern |-> pat]

\* parse_filter: one line of the [filters] section to a Filter
parse_filter(l) ==
    LET inc == ~starts_with(l, <<"!">>)
        l1 == IF starts_with(l, <<"!">>) THEN Tail(l) ELSE l
        sw == ~starts_with(l1, <<"*">>)
        l2 == IF starts_with(l1, <<"*">>) THEN Tail(l1) ELSE l1
        ew == ~ends_with(l2, <<"*">>)
        l3 == IF ends_with(l2, <<"*">>) THEN SubSeq(l2, 1, Len(l2) - 1) ELSE l2
        od == ends_with(l3, <<"/">>)
        l4 == IF ends_with(l3, <<"/">>) THEN SubSeq(l3, 1, Len(l3) - 1) ELSE l3
    IN  Filter(inc, sw, ew, od, l4)

\* the body of filter_path's loop: the result after one rule
filter_step(filter, rel_path_str, result) ==
    LET pattern == filter.pattern IN
    IF filter.should_start_with /\ filter.should_end_with
    THEN IF pattern = rel_path_str THEN filter.should_include ELSE result
    ELSE IF filter.should_start_with \/ filter.should_end_with
    THEN IF filter.should_start_with /\ starts_with(rel_path_str, pattern)
         THEN filter.should_include
         ELSE IF filter.should_end_with /\ ends_with(rel_path_str, pattern)
         THEN filter.should_include
         ELSE result
    ELSE IF contains(rel_path_str, pattern) THEN filter.should_include ELSE result

\* filter_loop with the rules applied last to first, so that the first match wins
RECURSIVE filter_loop_first_wins(_, _, _, _)
filter_loop_first_wins(fltrs, i, rel_path_str, result) ==
    IF i > Len(fltrs) THEN result
    ELSE filter_step(fltrs[i], rel_path_str,
                     filter_loop_first_wins(fltrs, i + 1, rel_path_str, result))

RECURSIVE filter_loop(_, _, _, _)
filter_loop(fltrs, i, rel_path_str, result) ==
    IF i > Len(fltrs) THEN result
    ELSE filter_loop(fltrs, i + 1, rel_path_str,
                     filter_step(fltrs[i], rel_path_str, result))

filter_path(fltrs, path, root, is_dir) ==
    LET rel_path == strip_prefix(path, root) IN
    IF rel_path = None THEN is_dir
    ELSE filter_loop(fltrs, 1, display(unwrap(rel_path)), is_dir)

-----------------------------------------------------------------------------
(* Indexer2::find *)

\* the width of usize, scaled down: arithmetic on lengths is taken modulo this
usize_modulus == 256

\* u8::is_ascii_alphanumeric over the alphabet of the model
AlnumChars == {"a", "b"}
is_ascii_alphanumeric(c) == c \in AlnumChars

\* str::lines: split at "\n"; a final "\n" opens no further line
RECURSIVE split_lines(_, _)
split_lines(s, cur) ==
    IF s = <<>> THEN (IF cur = <<>> THEN <<>> ELSE <<cur>>)
    ELSE IF Head(s) = "\n" THEN <<cur>> \o split_lines(Tail(s), <<>>)
    ELSE split_lines(Tail(s), Append(cur, Head(s)))

lines(value) == split_lines(value, <<>>)

\* str::match_indices: the leftmost matches, none overlapping an earlier one
RECURSIVE match_from(_, _, _)
match_from(s, p, from) ==
    LET later == {i \in occurrences(s, p) : i >= from} IN
    IF later = {} THEN <<>>
    ELSE LET pos == CHOOSE i \in later : \A j \in later : i <= j
         IN  <<pos>> \o match_from(s, p, pos + (IF Len(p) = 0 THEN 1 ELSE Len(p)))

match_indices(s, p) == match_from(s, p, 0)

\* integer to_string
Digits == <<"0", "1", "2", "3", "4", "5", "6", "7", "8", "9">>
RECURSIVE to_string(_)
to_string(n) ==
    IF n < 10 THEN <<Digits[n + 1]>>
    ELSE to_string(n \div 10) \o <<Digits[(n % 10) + 1]>>

\* format!("{}:{}: {}", key.display(), line_num, line)
format_match(key, line_num, line) ==
    display(key) \o <<":">> \o to_string(line_num) \o <<":", " ">> \o line

\* the condition of line 276 for one match: "reject", "accept" or "panic".
\* checked: the build traps integer overflow (debug) or wraps it (release)
word_test(line, term, pos, checked) ==
    LET left == pos > 0 /\ is_ascii_alphanumeric(line[pos])
        underflow == Len(line) = 0
        len_minus_1 == (Len(line) - 1) % usize_modulus
        guard == pos + Len(term) < len_minus_1
        idx == pos + Len(term)
    IN  IF left THEN "reject"
        ELSE IF underflow /\ checked THEN "panic"
        ELSE IF ~guard THEN "accept"
        ELSE IF idx >= Len(line) THEN "panic"
        ELSE IF is_ascii_alphanumeric(line[idx + 1]) THEN "reject"
        ELSE "accept"

\* the loop over match_indices: found ("accept"), not found ("reject"), "panic"
RECURSIVE word_loop(_, _, _, _, _)
word_loop(line, term, ms, j, checked) ==
    IF j > Len(ms) THEN "reject"
    ELSE LET t == word_test(line, term, ms[j], checked) IN
         IF t = "reject" THEN word_loop(line, term, ms, j + 1, checked) ELSE t

line_found(line, term, word, checked) ==
    IF word THEN word_loop(line, term, match_indices(line, term), 1, checked)
    ELSE "accept"

\* the loop over value.lines() for one file; a rejected line takes the
\* continue of line 285, past line_num += 1
RECURSIVE find_lines(_, _, _, _, _, _, _, _)
find_lines(key, ls, i, line_num, term, word, checked, out) ==
    IF i > Len(ls) THEN [out |-> out, panic |-> FALSE]
    ELSE IF ~contains(ls[i], term)
    THEN find_lines(key, ls, i + 1, line_num + 1, term, word, checked, out)
    ELSE LET f == line_found(ls[i], term, word, checked) IN
         IF f = "panic" THEN [out |-> out, panic |-> TRUE]
         ELSE IF f = "reject"
         THEN find_lines(key, ls, i + 1, line_num, term, word, checked, out)
         ELSE find_lines(key, ls, i + 1, line_num + 1, term, word, checked,
                         Append(out, format_match(key, line_num, ls[i])))

\* find for one (key, value) of the index
find_file(key, value, term, word, checked) ==
    IF contains(value, term)
    THEN find_lines(key, lines(value), 1, 1, term, word, checked, <<>>)
    ELSE [out |-> <<>>, panic |-> FALSE]

\* Indexer2::find over the index entries in the order the map yields them
RECURSIVE find_entries(_, _, _, _, _, _)
find_entries(map, order, term, word, checked, out) ==
    IF order = <<>> THEN [out |-> out, panic |-> FALSE]
    ELSE LET r == find_file(Head(order), map[Head(order)], term, word, checked) IN
         IF r.panic THEN [out |-> out \o r.out, panic |-> TRUE]
         ELSE find_entries(map, Tail(order), term, word, checked, out \o r.out)

find(map, order, args, checked) ==
    IF args.term = None THEN [out |-> <<>>, panic |-> FALSE]
    ELSE find_entries(map, order, unwrap(args.term), args.word, checked, <<>>)

\* Indexer2::list_files
RECURSIVE list_files(_)
list_files(order) ==
    IF order = <<>> THEN <<>> ELSE <<display(Head(order))>> \o list_files(Tail(order))

-----------------------------------------------------------------------------
(* The wire: request frames and response lines *)

SERVER_TO_SERVER_ENDING_MSG ==
    <<"#", "#", "#", "s", "e", "r", "v", "e", "r", "_", "t", "o", "_", "s", "e", "r", "v", "e", "r", "_", "e", "n", "d", "#", "#", "#">>
SERVER_TO_CLIENT_ENDING_MSG ==
    <<"#", "#", "#", "s", "e", "r", "v", "e", "r", "_", "t", "o", "_", "c", "l", "i", "e", "n", "t", "_", "e", "n", "d", "#", "#", "#">>
MAIN_SERVER_ENDING_MSG ==
    <<"#", "#", "#", "m", "a", "i", "n", "_", "s", "e", "r", "v", "e", "r", "_", "e", "n", "d", "#", "#", "#">>

Whitespace == {" ", "\n"}

\* str::trim
RECURSIVE trim_start(_)
trim_start(t) == IF t # <<>> /\ Head(t) \in Whitespace THEN trim_start(Tail(t)) ELSE t
RECURSIVE trim_end(_)
trim_end(t) ==
    IF t # <<>> /\ t[Len(t)] \in Whitespace THEN trim_end(SubSeq(t, 1, Len(t) - 1)) ELSE t
trim(t) == trim_end(trim_start(t))

\* a request frame as the reader meets it: whether the 8-byte length prefix
\* and the payload arrive whole, and the Args the payload decodes to, None
\* when it decodes to none
Frame(prefix, payload, record) ==
    [prefix |-> prefix, payload |-> payload, record |-> record]

\* write_to_pipe: the prefix and the whole encoding of v
write_to_pipe(v) == Frame("full", "full", Some(v))

\* read_from_pipe: the read errors are dropped and the decode is unwrapped, so
\* a frame that is short or does not decode panics
read_from_pipe(frame) ==
    IF frame.prefix = "full" /\ frame.payload = "full" /\ frame.record # None
    THEN [panic |-> FALSE, value |-> frame.record]
    ELSE [panic |-> TRUE, value |-> None]

-----------------------------------------------------------------------------
(* The filesystem and Indexer2::handle_event *)

Absent == [kind |-> "absent", text |-> None]
Dir == [kind |-> "dir", text |-> None]
\* a directory that fs::read_dir fails on
DirDenied == [kind |-> "dir_denied", text |-> None]
\* a regular file; text is None when its bytes are not valid UTF-8
File(text) == [kind |-> "file", text |-> text]

\* Path::is_file, Path::is_dir
path_is_file(dsk, path) == path \in DOMAIN dsk /\ dsk[path].kind = "file"
path_is_dir(dsk, path) == path \in DOMAIN dsk /\ dsk[path].kind \in {"dir", "dir_denied"}

\* fs::read_dir: the entries of a directory, None when it cannot be listed
read_dir(dsk, dir) ==
    IF dsk[dir].kind = "dir"
    THEN Some({q \in DOMAIN dsk : /\ Len(q) = Len(dir) + 1
                                 /\ SubSeq(q, 1, Len(dir)) = dir
                                 /\ dsk[q].kind # "absent"})
    ELSE None

\* std::fs::read_to_string, as an Option
read_to_string(dsk, path) == IF path_is_file(dsk, path) THEN dsk[path].text ELSE None

\* HashMap::insert, HashMap::remove
insert(map, k, v) == [q \in DOMAIN map \cup {k} |-> IF q = k THEN v ELSE map[q]]
remove(map, k) == [q \in DOMAIN map \ {k} |-> map[q]]
EmptyMap == [q \in {} |-> <<>>]

\* the Create/Modify arm appending what it read to the entry already held
handle_create_modify_append(map, path, fltrs, root, dsk) ==
    IF filter_path(fltrs, path, root, FALSE) /\ path_is_file(dsk, path)
    THEN IF read_to_string(dsk, path) # None
         THEN insert(map, path,
                     (IF path \in DOMAIN map THEN map[path] ELSE <<>>)
                        \o unwrap(read_to_string(dsk, path)))
         ELSE map
    ELSE map

\* the arm of handle_event for one path of a Create or Modify event
handle_create_modify(map, path, fltrs, root, dsk) ==
    IF filter_path(fltrs, path, root, FALSE) /\ path_is_file(dsk, path)
    THEN IF read_to_string(dsk, path) # None
         THEN insert(map, path, unwrap(read_to_string(dsk, path)))
         ELSE map
    ELSE map

\* the arm of handle_event for one path of a Remove event
handle_remove(map, path, fltrs, root, dsk) ==
    IF filter_path(fltrs, path, root, FALSE) /\ path_is_file(dsk, path)
    THEN remove(map, path)
    ELSE map

RECURSIVE handle_paths(_, _, _, _, _, _, _)
handle_paths(map, kind, paths, i, fltrs, root, dsk) ==
    IF i > Len(paths) THEN map
    ELSE handle_paths(
            IF kind \in {"Create", "Modify"}
            THEN handle_create_modify(map, paths[i], fltrs, root, dsk)
            ELSE handle_remove(map, paths[i], fltrs, root, dsk),
            kind, paths, i + 1, fltrs, root, dsk)

\* Indexer2::handle_event
handle_event(map, event, fltrs, root, dsk) ==
    IF event.kind \in {"Create", "Modify", "Remove"}
    THEN handle_paths(map, event.kind, event.paths, 1, fltrs, root, dsk)
    ELSE map

-----------------------------------------------------------------------------
(* Bounds and the inputs drawn within them *)

MaxRules == 2           \* rules in a filter list
MaxDepth == 2           \* components of a path below the root
MaxContentLen == 4      \* bytes of a file
MaxTermLen == 2         \* bytes of a search term
MaxEventPaths == 2      \* paths carried by one watcher event
thread_count == 2       \* build's worker threads (4 in the program)
files_per_thread == 1   \* build's batch cap (1024 in the program)
NChildren == 2          \* child servers the entry-point server may configure
NClients == 2           \* peers that connect to the entry-point server

SeqsUpTo(S, n) == UNION {[1 .. k -> S] : k \in 0 .. n}
Range(q) == {q[i] : i \in 1 .. Len(q)}

\* the root a server indexes, and a directory outside it
Root == << <<"r">> >>
Outside == << <<"q">> >>

\* file and directory names
Names == {<<"a">>, <<"b">>, <<"a", "b">>}

\* lines of the [filters] section of .hanoi
FilterLines ==
    { <<"a">>, <<"!", "a">>, <<"*", "b">>, <<"!", "*", "b">>, <<"a", "*">>,
      <<"*", "a", "*">>, <<"a", "/">>, <<"!", "b", "/">> }

FilterPaths ==
    {Root \o rel : rel \in SeqsUpTo(Names, MaxDepth)} \cup {Outside \o << <<"a">> >>}

ContentChars == {"a", "b", " ", "\n"}
TermChars == {"a", "b", " "}

KeyA == Root \o << <<"a">> >>

idle == [fn |-> "none"]

\* the paths of the watched tree that events and queries are drawn over
IndexPaths == {Root \o <<n>> : n \in {<<"a">>, <<"b">>}}

\* contents of a file: valid text, or None for bytes that are not UTF-8
Texts == {Some(<<"a">>), Some(<<"b", " ", "a">>), None}

NoEvent == [kind |-> "none", paths |-> <<>>]
NoLast == [op |-> "none", event |-> NoEvent, before |-> EmptyMap,
           repeat |-> FALSE, out |-> <<>>]

PureIdle == call = idle /\ ret = None
ServeIdle ==
    /\ additional_dirs = <<>>
    /\ servers = <<>>
    /\ incoming = <<>>
    /\ links = <<>>
    /\ peers = <<>>
    /\ reply = <<>>
BuildIdle ==
    /\ work_queue = [paths |-> <<>>, has_stopped |-> FALSE]
    /\ qlock = None
    /\ workers = <<>>
    /\ walker = [pc |-> "idle", stack |-> <<>>, paths |-> <<>>, joined |-> 0,
                 err |-> FALSE]
StartIdle ==
    /\ sockets = <<>>
    /\ starters = <<>>
LockIdle ==
    /\ index_mutex = None
    /\ handler = idle
    /\ watcher = idle
IndexIdle ==
    /\ disk = [p \in IndexPaths |-> Absent]
    /\ filters = <<>>
    /\ files = EmptyMap
    /\ last = NoLast
    /\ gone = {}

-----------------------------------------------------------------------------
(* SpecFilter: parse_filter and filter_path applied to drawn inputs *)

InitFilter ==
    /\ \E ls \in SeqsUpTo(FilterLines, MaxRules), p \in FilterPaths, d \in BOOLEAN :
          call = [fn |-> "filter_path", lines |-> ls, parsed |-> FALSE,
                  filters |-> <<>>, path |-> p, root |-> Root, is_dir |-> d]
    /\ ret = None
    /\ IndexIdle
    /\ BuildIdle
    /\ StartIdle
    /\ LockIdle
    /\ ServeIdle

\* server_main's loop over the [filters] lines of the configuration
ParseFilters ==
    /\ call.fn = "filter_path"
    /\ ~call.parsed
    /\ call' = [call EXCEPT !.parsed = TRUE,
                            !.filters = [i \in 1 .. Len(call.lines) |->
                                            parse_filter(call.lines[i])]]
    /\ UNCHANGED <<ret, indexVars, buildVars, startVars, lockVars, serveVars>>

ApplyFilterPath ==
    /\ call.fn = "filter_path"
    /\ call.parsed
    /\ ret = None
    /\ ret' = Some(filter_path(call.filters, call.path, call.root, call.is_dir))
    /\ UNCHANGED <<call, indexVars, buildVars, startVars, lockVars, serveVars>>

NextFilter == ParseFilters \/ ApplyFilterPath

SpecFilter == InitFilter /\ [][NextFilter]_vars

\* whether a rule matches a root-relative path, by the rule's anchors
RuleMatches(f, rel) ==
    CASE f.should_start_with /\ f.should_end_with -> rel = f.pattern
      [] f.should_start_with /\ ~f.should_end_with -> starts_with(rel, f.pattern)
      [] ~f.should_start_with /\ f.should_end_with -> ends_with(rel, f.pattern)
      [] OTHER -> contains(rel, f.pattern)

MatchingRules(fs, rel) == {i \in 1 .. Len(fs) : RuleMatches(fs[i], rel)}

LastMatch(fs, rel) ==
    CHOOSE i \in MatchingRules(fs, rel) : \A j \in MatchingRules(fs, rel) : j <= i

FilterApplied == call.fn = "filter_path" /\ ret # None

\* C8: filter is last-match-wins: when a rule matches the root-relative path
\* the result is the include flag of the last matching rule in list order;
\* when none matches, or the path is not under the root, the result is is_dir.
C8_LastMatchWins ==
    FilterApplied =>
        LET rel == strip_prefix(call.path, call.root) IN
        unwrap(ret) =
            IF rel # None /\ MatchingRules(call.filters, display(unwrap(rel))) # {}
            THEN call.filters[LastMatch(call.filters, display(unwrap(rel)))].should_include
            ELSE call.is_dir

\* filter_path has run on a path that two rules of opposite include flags match
C8_Witness ==
    /\ FilterApplied
    /\ strip_prefix(call.path, call.root) # None
    /\ LET m == MatchingRules(call.filters, display(unwrap(strip_prefix(call.path, call.root))))
       IN  \E i, j \in m :
              /\ i < j
              /\ call.filters[i].should_include # call.filters[j].should_include

\* C9: a dir_only rule is skipped for non-directory paths: filter(path, root,
\* is_dir=false) returns what it returns with the dir_only rules removed.
C9_DirOnlySkippedForFiles ==
    (FilterApplied /\ ~call.is_dir) =>
        unwrap(ret) = filter_path(SelectSeq(call.filters, LAMBDA f : ~f.only_dir),
                                  call.path, call.root, FALSE)

-----------------------------------------------------------------------------
(* SpecFind: Indexer2::find applied to an index of one drawn file *)

\* struct Args
Args(cp, fl, w, ms, t) ==
    [mode |-> "Client", root |-> None, client_pipe |-> cp, files |-> fl,
     word |-> w, main_server |-> ms, term |-> t]

InitFind ==
    /\ \E v \in SeqsUpTo(ContentChars, MaxContentLen),
          t \in SeqsUpTo(TermChars, MaxTermLen), w \in BOOLEAN, c \in BOOLEAN :
          call = [fn |-> "find", files |-> (KeyA :> v), order |-> <<KeyA>>,
                  args |-> Args(None, FALSE, w, FALSE, Some(t)), checked |-> c]
    /\ ret = None
    /\ IndexIdle
    /\ BuildIdle
    /\ StartIdle
    /\ LockIdle
    /\ ServeIdle

ApplyFind ==
    /\ call.fn = "find"
    /\ ret = None
    /\ ret' = Some(find(call.files, call.order, call.args, call.checked))
    /\ UNCHANGED <<call, indexVars, buildVars, startVars, lockVars, serveVars>>

NextFind == ApplyFind

SpecFind == InitFind /\ [][NextFind]_vars

\* an occurrence of term in line whose neighbouring bytes, where the line has
\* them, are both not alphanumeric
BoundedOccurrence(line, term, pos) ==
    /\ pos = 0 \/ ~is_ascii_alphanumeric(line[pos])
    /\ pos + Len(term) >= Len(line) \/ ~is_ascii_alphanumeric(line[pos + Len(term) + 1])

HasBoundedOccurrence(line, term) ==
    \E pos \in occurrences(line, term) : BoundedOccurrence(line, term, pos)

FindApplied == call.fn = "find" /\ ret # None

\* C10: in word mode every line find emits holds an occurrence of the term
\* whose neighbouring bytes within the line are both not alphanumeric; a line
\* whose every occurrence has an alphanumeric neighbour, the last byte of the
\* line included, is not emitted.
C10_WordBoundary ==
    (FindApplied /\ call.args.word) =>
        LET ls == lines(call.files[KeyA])
            term == unwrap(call.args.term)
        IN  \A o \in Range(unwrap(ret).out) :
               \E i \in 1 .. Len(ls) :
                  /\ \E n \in 1 .. Len(ls) : o = format_match(KeyA, n, ls[i])
                  /\ HasBoundedOccurrence(ls[i], term)

\* the 1-based positions of the lines that contain the term, in order
HitPositions(ls, term) ==
    SelectSeq([i \in 1 .. Len(ls) |-> i], LAMBDA i : contains(ls[i], term))

\* C11: every line find emits, in non-word and in word mode, is
\* `path:line_no: line` with line_no the 1-based position of that line among
\* all the lines of the file, emitted or not; in non-word mode the emitted
\* lines are exactly the lines that contain the term, in file order.
C11_LineNumbers ==
    FindApplied =>
        LET ls == lines(call.files[KeyA])
            term == unwrap(call.args.term)
            out == unwrap(ret).out
            hits == HitPositions(ls, term)
        IN  /\ \A o \in Range(out) :
                  \E i \in Range(hits) : o = format_match(KeyA, i, ls[i])
            /\ ~call.args.word =>
                  out = [k \in 1 .. Len(hits) |-> format_match(KeyA, hits[k], ls[hits[k]])]

\* C11 in non-word mode alone
C11_NonWordLines ==
    (FindApplied /\ ~call.args.word) =>
        LET ls == lines(call.files[KeyA])
            hits == HitPositions(ls, unwrap(call.args.term))
        IN  unwrap(ret).out =
                [k \in 1 .. Len(hits) |-> format_match(KeyA, hits[k], ls[hits[k]])]

\* C20: the word-mode boundary check of find never underflows line.len() - 1
\* and never indexes a byte outside the line, for every term, the empty term
\* included, and every line, the empty line included: find returns without
\* panicking in the checked and in the wrapping build.
C20_WordCheckInBounds ==
    FindApplied => ~unwrap(ret).panic

\* C20 for files none of whose lines is empty
C20_NonEmptyLines ==
    (FindApplied /\ \A i \in 1 .. Len(lines(call.files[KeyA])) :
                        lines(call.files[KeyA])[i] # <<>>) =>
        ~unwrap(ret).panic

-----------------------------------------------------------------------------
(* SpecIndex: the published index of one server, its watcher and its queries *)

\* the filter lists a server is started with
IndexRuleLists ==
    { <<>>,
      << <<"*", "a", "*">> >>,
      << <<"*", "a", "*">>, <<"*", "b", "*">> >>,
      << <<"*", "a", "*">>, <<"!", "b", "/">> >>,
      << <<"*", "b", "*">>, <<"a", "/">> >> }

ParseAll(ls) == [i \in 1 .. Len(ls) |-> parse_filter(ls[i])]

DiskStates == {Absent, Dir} \cup {File(t) : t \in Texts}

Events ==
    {[kind |-> k, paths |-> ps] :
        k \in {"Create", "Modify", "Remove", "Access"},
        ps \in SeqsUpTo(IndexPaths, MaxEventPaths) \ {<<>>}}

QueryTerms == {<<"a">>}

Perms(S) == {f \in [1 .. Cardinality(S) -> S] : \A i, j \in DOMAIN f : f[i] = f[j] => i = j}

\* the index a completed build leaves over a tree of files directly under root
BuiltIndex(dsk, fltrs) ==
    [p \in {q \in DOMAIN dsk : /\ path_is_file(dsk, q)
                              /\ filter_path(fltrs, q, Root, FALSE)
                              /\ read_to_string(dsk, q) # None}
       |-> unwrap(read_to_string(dsk, p))]

InitIndex ==
    /\ PureIdle
    /\ BuildIdle
    /\ StartIdle
    /\ LockIdle
    /\ ServeIdle
    /\ disk \in [IndexPaths -> DiskStates]
    /\ filters \in {ParseAll(ls) : ls \in IndexRuleLists}
    /\ files = BuiltIndex(disk, filters)
    /\ last = NoLast
    /\ gone = {}

\* a file is created or rewritten on disk
FsWrite ==
    \E p \in IndexPaths, t \in Texts :
        /\ disk[p].kind # "dir"
        /\ disk[p] # File(t)
        /\ disk' = [disk EXCEPT ![p] = File(t)]
        /\ gone' = gone \ {p}
        /\ last' = [NoLast EXCEPT !.op = "fs"]
        /\ UNCHANGED <<pureVars, buildVars, startVars, lockVars, serveVars, filters, files>>

\* a file is deleted from disk
FsRemove ==
    \E p \in IndexPaths :
        /\ disk[p].kind = "file"
        /\ disk' = [disk EXCEPT ![p] = Absent]
        /\ last' = [NoLast EXCEPT !.op = "fs"]
        /\ UNCHANGED <<pureVars, buildVars, startVars, lockVars, serveVars, filters, files, gone>>

\* the watcher callback: indexer2.lock().unwrap().handle_event(&event, &filters)
WatchEvent ==
    \E e \in Events :
        /\ files' = handle_event(files, e, filters, Root, disk)
        /\ last' = [op |-> "event", event |-> e, before |-> files,
                    repeat |-> (last.op = "event" /\ last.event = e), out |-> <<>>]
        /\ gone' = gone \cup
                     {p \in Range(e.paths) :
                         /\ e.kind = "Remove"
                         /\ p \in DOMAIN files
                         /\ disk[p] = Absent
                         /\ filter_path(filters, p, Root, FALSE)}
        /\ UNCHANGED <<pureVars, buildVars, startVars, lockVars, serveVars, disk, filters>>

\* the request handler's query: list_files when args.files, else find
Query ==
    \E fl \in BOOLEAN, w \in BOOLEAN, t \in QueryTerms, c \in BOOLEAN,
       order \in Perms(DOMAIN files) :
        /\ last' = [NoLast EXCEPT
                       !.op = "query",
                       !.out = IF fl THEN list_files(order)
                               ELSE find(files, order,
                                         Args(None, FALSE, w, FALSE, Some(t)), c).out]
        /\ UNCHANGED <<pureVars, buildVars, startVars, lockVars, serveVars, disk, filters, files, gone>>

NextIndex == FsWrite \/ FsRemove \/ WatchEvent \/ Query

SpecIndex == InitIndex /\ [][NextIndex]_vars

\* a result line that names path p: the path alone, or the path and a colon
LineOf(p, o) == o = display(p) \/ starts_with(o, display(p) \o <<":">>)

\* C5: once an indexed file that passes the filter is deleted from disk and
\* the Remove event for it is handled, its key is not in the index, and a
\* later find or list_files emits no line for it.
C5_RemovedFileLeavesIndex ==
    \A p \in gone :
        /\ p \notin DOMAIN files
        /\ last.op = "query" => \A o \in Range(last.out) : ~LineOf(p, o)

\* C6: event handling is idempotent: the same Create or Modify event applied
\* again with the filesystem unchanged leaves the index as the first
\* application left it, and a Remove event naming no key of the index leaves
\* the index unchanged.
C6_EventIdempotence ==
    last.op = "event" =>
        /\ (last.repeat /\ last.event.kind \in {"Create", "Modify"})
              => files = last.before
        /\ (last.event.kind = "Remove"
              /\ Range(last.event.paths) \cap DOMAIN last.before = {})
              => files = last.before

\* a Create or Modify event that put a file into the index has been applied a
\* second time
C6_Witness ==
    /\ last.op = "event"
    /\ last.repeat
    /\ last.event.kind \in {"Create", "Modify"}
    /\ \E p \in Range(last.event.paths) :
          /\ p \in DOMAIN files
          /\ p \notin DOMAIN BuiltIndex([q \in IndexPaths |-> Absent], filters)
          /\ files[p] = unwrap(disk[p].text)

-----------------------------------------------------------------------------
(* SpecBuild: Indexer2::build over a drawn tree *)

Workers == 1 .. thread_count
WalkerId == 0

\* the tree under the root: two entries, each of which may be a directory
BuildPaths ==
    {Root \o <<n>> : n \in {<<"a">>, <<"b">>}}
        \cup {Root \o <<n, m>> : n \in {<<"a">>, <<"b">>}, m \in {<<"a">>, <<"b">>}}

BuildTexts == {Some(<<"a">>), None}

Parent(path) == SubSeq(path, 1, Len(path) - 1)

BuildDisks ==
    {d \in [BuildPaths \cup {Root} ->
               {Absent, Dir, DirDenied} \cup {File(t) : t \in BuildTexts}] :
        /\ d[Root] = Dir
        /\ \A q \in BuildPaths :
              /\ d[q] # Absent => d[Parent(q)] = Dir
              /\ Len(q) = Len(Root) + 2 => d[q].kind \in {"absent", "file"}}

BuildRuleLists ==
    { <<>>,
      << <<"*", "a", "*">>, <<"*", "b", "*">> >>,
      << <<"*", "b", "*">> >>,
      << <<"*", "a", "*">>, <<"*", "b", "*">>, <<"!", "a">> >> }

Reverse(q) == [i \in 1 .. Len(q) |-> q[Len(q) + 1 - i]]
Min(a, b) == IF a < b THEN a ELSE b

\* HashMap::extend
extend(map, other) ==
    [q \in DOMAIN map \cup DOMAIN other |-> IF q \in DOMAIN other THEN other[q] ELSE map[q]]

\* Condvar::notify_all: every waiting worker goes back to taking the mutex
notify_all(ws) ==
    [w \in DOMAIN ws |-> IF ws[w].pc = "waiting" THEN [ws[w] EXCEPT !.pc = "lock"] ELSE ws[w]]

\* visit_dirs returns from every directory whose entries are exhausted
RECURSIVE unwind(_)
unwind(stack) ==
    IF stack # <<>> /\ stack[Len(stack)].todo = {}
    THEN unwind(SubSeq(stack, 1, Len(stack) - 1))
    ELSE stack

InitBuild ==
    /\ PureIdle
    /\ ServeIdle
    /\ StartIdle
    /\ LockIdle
    /\ disk \in BuildDisks
    /\ filters \in {ParseAll(ls) : ls \in BuildRuleLists}
    /\ files = EmptyMap
    /\ last = NoLast
    /\ gone = {}
    /\ work_queue = [paths |-> <<>>, has_stopped |-> FALSE]
    /\ qlock = None
    /\ workers = [w \in Workers |->
                     [pc |-> "lock", paths |-> <<>>, files |-> EmptyMap,
                      should_stopped |-> FALSE]]
    /\ walker = [pc |-> "walk",
                 stack |-> unwind(<<[dir |-> Root, todo |-> unwrap(read_dir(disk, Root))]>>),
                 paths |-> <<>>, joined |-> 0, err |-> FALSE]

\* worker, line 200: lock.lock()
WorkerLock(w) ==
    /\ workers[w].pc = "lock"
    /\ qlock = None
    /\ qlock' = Some(w)
    /\ workers' = [workers EXCEPT ![w].pc = "locked"]
    /\ UNCHANGED <<pureVars, serveVars, startVars, lockVars, indexVars, work_queue, walker>>

\* worker, lines 201-203: cvar.wait gives the mutex up and suspends
WorkerWait(w) ==
    /\ workers[w].pc = "locked"
    /\ ~work_queue.has_stopped /\ work_queue.paths = <<>>
    /\ qlock' = None
    /\ workers' = [workers EXCEPT ![w].pc = "waiting"]
    /\ UNCHANGED <<pureVars, serveVars, startVars, lockVars, indexVars, work_queue, walker>>

\* Condvar::wait may return without a notification
SpuriousWake(w) ==
    /\ workers[w].pc = "waiting"
    /\ workers' = [workers EXCEPT ![w].pc = "lock"]
    /\ UNCHANGED <<pureVars, serveVars, startVars, lockVars, indexVars, work_queue, qlock, walker>>

\* WorkerTake copying the paths and leaving them in the queue
WorkerTake_peek(w) ==
    /\ workers[w].pc = "locked"
    /\ ~(~work_queue.has_stopped /\ work_queue.paths = <<>>)
    /\ LET n == Len(work_queue.paths)
           file_count == Min(n, files_per_thread)
           popped == Reverse(SubSeq(work_queue.paths, n - file_count + 1, n))
       IN  /\ UNCHANGED work_queue
           /\ workers' = [workers EXCEPT
                             ![w].pc = "read",
                             ![w].paths = @ \o popped,
                             ![w].should_stopped = work_queue.has_stopped]
    /\ qlock' = None
    /\ UNCHANGED <<pureVars, serveVars, startVars, lockVars, indexVars, walker>>

\* worker, lines 204-212: pop up to files_per_thread paths, note whether to
\* stop, drop the guard
WorkerTake(w) ==
    /\ workers[w].pc = "locked"
    /\ ~(~work_queue.has_stopped /\ work_queue.paths = <<>>)
    /\ LET n == Len(work_queue.paths)
           file_count == Min(n, files_per_thread)
           rest == SubSeq(work_queue.paths, 1, n - file_count)
           popped == Reverse(SubSeq(work_queue.paths, n - file_count + 1, n))
       IN  /\ work_queue' = [work_queue EXCEPT !.paths = rest]
           /\ workers' = [workers EXCEPT
                             ![w].pc = "read",
                             ![w].paths = @ \o popped,
                             ![w].should_stopped = work_queue.has_stopped /\ rest = <<>>]
    /\ qlock' = None
    /\ UNCHANGED <<pureVars, serveVars, startVars, lockVars, indexVars, walker>>

\* worker, lines 213-221: read every path of the batch, then stop or loop
WorkerRead(w) ==
    /\ workers[w].pc = "read"
    /\ LET ok == {q \in Range(workers[w].paths) : read_to_string(disk, q) # None}
       IN  workers' = [workers EXCEPT
                          ![w].files = extend(@, [q \in ok |-> unwrap(read_to_string(disk, q))]),
                          ![w].pc = IF workers[w].should_stopped THEN "done" ELSE "lock"]
    /\ UNCHANGED <<pureVars, serveVars, startVars, lockVars, indexVars, work_queue, qlock, walker>>

\* visit_dirs, lines 133-143, for one directory entry; load_files, lines
\* 229-234, for a file
WalkerVisit ==
    /\ walker.pc = "walk"
    /\ walker.stack # <<>>
    /\ LET top == walker.stack[Len(walker.stack)] IN
       \E e \in top.todo :
          LET stack1 == [walker.stack EXCEPT ![Len(walker.stack)].todo = @ \ {e}] IN
          IF path_is_dir(disk, e)
          THEN IF ~filter_path(filters, e, Root, TRUE)
               THEN walker' = [walker EXCEPT !.stack = unwind(stack1)]
               ELSE IF read_dir(disk, e) = None
               THEN walker' = [walker EXCEPT !.stack = <<>>, !.err = TRUE]
               ELSE walker' = [walker EXCEPT !.stack =
                        unwind(Append(stack1, [dir |-> e, todo |-> unwrap(read_dir(disk, e))]))]
          ELSE IF ~filter_path(filters, e, Root, FALSE)
               THEN walker' = [walker EXCEPT !.stack = unwind(stack1)]
               ELSE walker' = [walker EXCEPT
                                  !.stack = unwind(stack1),
                                  !.paths = Append(@, e),
                                  !.pc = IF Len(walker.paths) + 1 > files_per_thread
                                         THEN "flush_lock" ELSE "walk"]
    /\ UNCHANGED <<pureVars, serveVars, startVars, lockVars, indexVars, work_queue, qlock, workers>>

\* load_files, line 236: lock.lock()
WalkerFlushLock ==
    /\ walker.pc = "flush_lock"
    /\ qlock = None
    /\ qlock' = Some(WalkerId)
    /\ walker' = [walker EXCEPT !.pc = "flush"]
    /\ UNCHANGED <<pureVars, serveVars, startVars, lockVars, indexVars, work_queue, workers>>

\* load_files, lines 237-241: move files_per_thread staged paths to the queue,
\* notify_all, drop the guard
WalkerFlush ==
    /\ walker.pc = "flush"
    /\ LET n == Len(walker.paths)
           moved == Reverse(SubSeq(walker.paths, n - files_per_thread + 1, n))
       IN  /\ work_queue' = [work_queue EXCEPT !.paths = @ \o moved]
           /\ walker' = [walker EXCEPT !.paths = SubSeq(@, 1, n - files_per_thread),
                                       !.pc = "walk"]
    /\ workers' = notify_all(workers)
    /\ qlock' = None
    /\ UNCHANGED <<pureVars, serveVars, startVars, lockVars, indexVars>>

\* build, line 244: visit_dirs has returned
WalkerReturn ==
    /\ walker.pc = "walk"
    /\ walker.stack = <<>>
    /\ walker' = [walker EXCEPT !.pc = "close_lock"]
    /\ UNCHANGED <<pureVars, serveVars, startVars, lockVars, indexVars, work_queue, qlock, workers>>

\* build, line 248: lock.lock()
WalkerCloseLock ==
    /\ walker.pc = "close_lock"
    /\ qlock = None
    /\ qlock' = Some(WalkerId)
    /\ walker' = [walker EXCEPT !.pc = "close"]
    /\ UNCHANGED <<pureVars, serveVars, startVars, lockVars, indexVars, work_queue, workers>>

\* WalkerClose without the notify_all of line 254
WalkerClose_no_notify ==
    /\ walker.pc = "close"
    /\ work_queue' = [paths |-> work_queue.paths \o walker.paths, has_stopped |-> TRUE]
    /\ walker' = [walker EXCEPT !.paths = <<>>, !.pc = "join"]
    /\ qlock' = None
    /\ UNCHANGED <<pureVars, serveVars, startVars, lockVars, indexVars, workers>>

\* build, lines 249-255: append the staged paths, set has_stopped, notify_all
WalkerClose ==
    /\ walker.pc = "close"
    /\ work_queue' = [paths |-> work_queue.paths \o walker.paths, has_stopped |-> TRUE]
    /\ walker' = [walker EXCEPT !.paths = <<>>, !.pc = "join"]
    /\ workers' = notify_all(workers)
    /\ qlock' = None
    /\ UNCHANGED <<pureVars, serveVars, startVars, lockVars, indexVars>>

\* build, lines 256-258: join the next handle and extend self.files
WalkerJoin ==
    /\ walker.pc = "join"
    /\ walker.joined < thread_count
    /\ workers[walker.joined + 1].pc = "done"
    /\ files' = extend(files, workers[walker.joined + 1].files)
    /\ walker' = [walker EXCEPT !.joined = @ + 1,
                                !.pc = IF walker.joined + 1 = thread_count
                                       THEN "done" ELSE "join"]
    /\ UNCHANGED <<pureVars, serveVars, startVars, lockVars, disk, filters, last, gone, work_queue, qlock, workers>>

NextBuild ==
    \/ \E w \in Workers :
          WorkerLock(w) \/ WorkerWait(w) \/ SpuriousWake(w) \/ WorkerTake(w) \/ WorkerRead(w)
    \/ WalkerVisit
    \/ WalkerFlushLock
    \/ WalkerFlush
    \/ WalkerReturn
    \/ WalkerCloseLock
    \/ WalkerClose
    \/ WalkerJoin

SpecBuild == InitBuild /\ [][NextBuild]_vars

\* the scheduling build relies on: a thread that can take a step takes it,
\* and a thread that asks for the queue's mutex gets it if the mutex comes
\* free again and again; no wake-up without a notification is promised
FairBuild ==
    /\ \A w \in Workers :
          /\ SF_vars(WorkerLock(w))
          /\ WF_vars(WorkerWait(w))
          /\ WF_vars(WorkerTake(w))
          /\ WF_vars(WorkerRead(w))
    /\ WF_vars(WalkerVisit)
    /\ SF_vars(WalkerFlushLock)
    /\ WF_vars(WalkerFlush)
    /\ WF_vars(WalkerReturn)
    /\ SF_vars(WalkerCloseLock)
    /\ WF_vars(WalkerClose)
    /\ WF_vars(WalkerJoin)

\* build over the drawn trees whose files are all readable, with a filter
\* list that lets every file named a or b through
InitBuildFair ==
    /\ InitBuild
    /\ filters = ParseAll(<< <<"*", "a", "*">>, <<"*", "b", "*">> >>)
    /\ \A q \in BuildPaths : disk[q].kind = "file" => disk[q].text # None

SpecBuildFair == InitBuildFair /\ [][NextBuild]_vars /\ FairBuild

\* the directories strictly between the root and a path
Ancestors(path) ==
    {SubSeq(path, 1, n) : n \in (Len(Root) + 1) .. (Len(path) - 1)}

\* the files the walk is to index
Indexable(dsk, fltrs) ==
    {q \in DOMAIN dsk :
        /\ Len(q) > Len(Root)
        /\ path_is_file(dsk, q)
        /\ filter_path(fltrs, q, Root, FALSE)
        /\ \A d \in Ancestors(q) : filter_path(fltrs, d, Root, TRUE)
        /\ read_to_string(dsk, q) # None}

\* C7: after bulk build the keys of the index are exactly the regular files
\* under the root that pass the filter, whose ancestor directories below the
\* root all pass the filter as directories, and that are readable as text.
C7_IndexWalkEquivalence ==
    walker.pc = "done" => DOMAIN files = Indexable(disk, filters)

\* C16: bulk build terminates: once the walker has moved its staged paths to
\* the queue, set has_stopped and notified, every worker comes to see the
\* queue stopped and empty and exits, and the joins of build return; no
\* worker is left waiting on the condition variable.
C16_BuildTerminates ==
    work_queue.has_stopped ~>
        (walker.pc = "done" /\ \A w \in Workers : workers[w].pc = "done")

\* the walker has stopped the queue, every worker has exited, build has
\* joined them all and the index holds what they read
C16_Witness ==
    /\ walker.pc = "done"
    /\ work_queue.has_stopped
    /\ \A w \in Workers : workers[w].pc = "done"
    /\ files # EmptyMap

NoDup(q) == \A i, j \in 1 .. Len(q) : i # j => q[i] # q[j]

\* the paths that are in the shared queue or were popped from it
Held == Range(work_queue.paths) \cup UNION {Range(workers[w].paths) : w \in Workers}

\* self.files after the joins, had the handles been joined in a given order
RECURSIVE merged(_)
merged(order) ==
    IF order = <<>> THEN EmptyMap
    ELSE extend(merged(SubSeq(order, 1, Len(order) - 1)), workers[order[Len(order)]].files)

\* C17 in each state: a path is in the queue or with one worker, once; an
\* exited worker leaves the queue stopped and empty; the partial maps share no
\* key; every order of the joins gives the index build has made
C17_NoPathShared ==
    /\ NoDup(work_queue.paths)
    /\ \A w \in Workers :
          /\ NoDup(workers[w].paths)
          /\ Range(workers[w].paths) \cap Range(work_queue.paths) = {}
          /\ workers[w].pc = "done" =>
                work_queue.has_stopped /\ work_queue.paths = <<>>
    /\ \A w1, w2 \in Workers :
          w1 # w2 =>
             /\ Range(workers[w1].paths) \cap Range(workers[w2].paths) = {}
             /\ DOMAIN workers[w1].files \cap DOMAIN workers[w2].files = {}
    /\ walker.pc = "done" => \A order \in Perms(Workers) : files = merged(order)

\* C17 in each step: no path leaves the queue but into the batch of a worker;
\* a worker decides to exit only as the holder of the queue's mutex, seeing
\* the queue stopped and empty, and exits only having decided so
C17_NoPathLost ==
    /\ Held \subseteq Held'
    /\ \A w \in Workers :
          /\ (~workers[w].should_stopped /\ workers'[w].should_stopped) =>
                /\ qlock = Some(w)
                /\ work_queue'.has_stopped
                /\ work_queue'.paths = <<>>
          /\ (workers[w].pc # "done" /\ workers'[w].pc = "done") =>
                workers[w].should_stopped

\* C17: no queued path is lost or shared: a worker exits only after it saw,
\* under the queue's mutex, the queue stopped and empty; every path the walker
\* put in the queue is popped by exactly one worker before all have exited;
\* so the workers' partial maps share no key and the merged index is the same
\* for every order of merging.
C17_NoPathLostOrShared == []C17_NoPathShared /\ [][C17_NoPathLost]_vars

\* build has returned after two workers each popped and read a path
C17_Witness ==
    /\ walker.pc = "done"
    /\ ~walker.err
    /\ \E w1, w2 \in Workers :
          /\ w1 # w2
          /\ workers[w1].files # EmptyMap
          /\ workers[w2].files # EmptyMap
    /\ DOMAIN files = Indexable(disk, filters)

\* C18: in every iteration of a worker's loop the batch it reads after
\* dropping the guard holds at most files_per_thread paths, those popped from
\* the queue in that iteration and no path of an earlier iteration.
C18_BatchIsThisPop ==
    [][\A w \in Workers :
          (workers[w].pc = "locked" /\ workers'[w].pc = "read") =>
             /\ Len(workers'[w].paths) <= files_per_thread
             /\ Range(workers'[w].paths) =
                   Range(work_queue.paths) \ Range(work_queue'.paths)]_vars

\* C18 for the first iteration of a worker's loop that pops a path
C18_FirstBatch ==
    [][\A w \in Workers :
          (workers[w].pc = "locked" /\ workers'[w].pc = "read" /\ workers[w].paths = <<>>) =>
             /\ Len(workers'[w].paths) <= files_per_thread
             /\ Range(workers'[w].paths) =
                   Range(work_queue.paths) \ Range(work_queue'.paths)]_vars

-----------------------------------------------------------------------------
(* Spec: server_main's accept loop in the entry-point server (server 0) and  *)
(* in its children, and client_main in each peer                             *)

Servers == 0 .. NChildren
Children == 1 .. NChildren
Clients == 1 .. NClients

\* each server's index: one file under its own root
ServerKey(s) == << <<"s">>, to_string(s), <<"f">> >>
ServerFiles(s) == ServerKey(s) :> <<"a", " ", "b">>

\* what a peer may write to the entry-point server's socket: a request as
\* client_main forms it or as a parent forwards it, a request that names no
\* reply channel, or a frame that is short or does not decode
PeerFrames(c) ==
    {write_to_pipe(Args(Some(c), FALSE, FALSE, ms, Some(<<"a">>))) : ms \in BOOLEAN}
        \cup {write_to_pipe(Args(None, FALSE, FALSE, TRUE, Some(<<"a">>))),
              Frame("short", "short", None),
              Frame("full", "short", None),
              Frame("full", "full", None)}

WellFormed(frame) == ~read_from_pipe(frame).panic /\ unwrap(frame.record).client_pipe # None

NoConn == [peer |-> 0, parent |-> None, frame |-> Frame("full", "full", None)]
NoLink == [open |-> FALSE, back |-> <<>>]

Handler(pc) ==
    [pc |-> pc, cause |-> "none", conn |-> NoConn, client_args |-> None,
     is_main_server |-> FALSE, idx |-> 0, log |-> <<>>]

Init ==
    /\ PureIdle
    /\ IndexIdle
    /\ BuildIdle
    /\ StartIdle
    /\ LockIdle
    /\ \E k \in 0 .. NChildren :
          additional_dirs = [s \in Servers |-> IF s = 0 THEN [i \in 1 .. k |-> i] ELSE <<>>]
    /\ \E up \in [Children -> BOOLEAN] :
          /\ \A c \in Children : up[c] => c \in Range(additional_dirs[0])
          /\ servers = [s \in Servers |->
                           Handler(IF s = 0 \/ up[s] THEN "accept" ELSE "down")]
    /\ incoming = [s \in Servers |-> <<>>]
    /\ links = [c \in Children |-> NoLink]
    /\ peers = [c \in Clients |->
                   [pc |-> "start", frame |-> NoConn.frame, ghost |-> FALSE,
                    accepted |-> 0, printed |-> <<>>, s2c_seen |-> 0]]
    /\ reply = [c \in Clients |-> <<>>]

\* the listener of a server is bound and its process runs
Listening(s) == servers[s].pc \notin {"down", "crashed"}

\* a connect to the reply channel of c succeeds: the client holds its listener
Connectable(c) == c \in Clients /\ peers[c].pc = "listening"

Crash(s, cause) ==
    /\ servers' = [servers EXCEPT ![s].pc = "crashed", ![s].cause = cause]
    /\ incoming' = [incoming EXCEPT ![s] = <<>>]

\* client_main, lines 520-526: bind the reply channel, connect to the server
\* found and write the request; the request socket is dropped at once.  A
\* ghost is a peer that names a reply channel nothing listens on.  Peers are
\* interchangeable, so they are taken to send in the order of their numbers.
ClientSend(c) ==
    /\ peers[c].pc = "start"
    /\ \A b \in Clients : b < c => peers[b].pc # "start"
    /\ \E fr \in PeerFrames(c), gh \in BOOLEAN :
          /\ gh => WellFormed(fr)
          /\ peers' = [peers EXCEPT ![c].pc = IF gh THEN "dead" ELSE "listening",
                                    ![c].frame = fr, ![c].ghost = gh]
          /\ incoming' = IF Listening(0)
                         THEN [incoming EXCEPT ![0] =
                                  Append(@, [peer |-> c, parent |-> None, frame |-> fr])]
                         ELSE incoming
    /\ UNCHANGED <<pureVars, indexVars, buildVars, startVars, lockVars, additional_dirs, servers, links, reply>>

\* the index of the first sentinel among the lines of a connection, 0 if none
FirstSentinel(conn) ==
    LET at == {i \in 1 .. Len(conn) :
                  trim(conn[i]) \in {SERVER_TO_CLIENT_ENDING_MSG, MAIN_SERVER_ENDING_MSG}}
    IN  IF at = {} THEN 0 ELSE CHOOSE i \in at : \A j \in at : i <= j

\* client_main, lines 530-549: accept the next connection to the reply
\* channel and read it up to a sentinel, printing the lines before it
ClientReadConn(c) ==
    /\ peers[c].pc = "listening"
    /\ peers[c].accepted < Len(reply[c])
    /\ LET conn == reply[c][peers[c].accepted + 1]
           stop == FirstSentinel(conn)
           body == SubSeq(conn, 1, IF stop = 0 THEN Len(conn) ELSE stop - 1)
           shown == SelectSeq([i \in 1 .. Len(body) |-> trim(body[i])], LAMBDA l : l # <<>>)
       IN  peers' = [peers EXCEPT
                        ![c].printed = @ \o shown,
                        ![c].accepted = @ + 1,
                        ![c].s2c_seen =
                            IF stop # 0 /\ trim(conn[stop]) = SERVER_TO_CLIENT_ENDING_MSG
                            THEN @ + 1 ELSE @,
                        ![c].pc =
                            IF stop = 0 THEN "spin"
                            ELSE IF trim(conn[stop]) = MAIN_SERVER_ENDING_MSG THEN "done"
                            ELSE "listening"]
    /\ UNCHANGED <<pureVars, indexVars, buildVars, startVars, lockVars, additional_dirs, servers, incoming,
                   links, reply>>

\* the client process is ended from outside while it waits; its listener goes
ClientDie(c) ==
    /\ peers[c].pc = "listening"
    /\ peers' = [peers EXCEPT ![c].pc = "dead"]
    /\ UNCHANGED <<pureVars, indexVars, buildVars, startVars, lockVars, additional_dirs, servers, incoming,
                   links, reply>>

\* ServerAccept leaving main_server as it was received in the copy to forward
ServerAccept_keep_main(s) ==
    /\ servers[s].pc = "accept"
    /\ incoming[s] # <<>>
    /\ LET conn == Head(incoming[s])
           r == read_from_pipe(conn.frame)
       IN  IF r.panic THEN Crash(s, "decode") /\ UNCHANGED reply
           ELSE IF unwrap(r.value).client_pipe = None
           THEN Crash(s, "no_pipe") /\ UNCHANGED reply
           ELSE LET args == unwrap(r.value)
                    c == unwrap(args.client_pipe)
                    q == IF args.files
                         THEN [out |-> list_files(<<ServerKey(s)>>), panic |-> FALSE]
                         ELSE find(ServerFiles(s), <<ServerKey(s)>>, args, TRUE)
                IN  /\ incoming' = [incoming EXCEPT ![s] = Tail(@)]
                    /\ reply' = IF Connectable(c)
                                THEN [reply EXCEPT ![c] =
                                         Append(@, q.out \o <<SERVER_TO_CLIENT_ENDING_MSG>>)]
                                ELSE reply
                    /\ servers' = [servers EXCEPT
                                      ![s] = [Handler("fanout") EXCEPT
                                                 !.conn = conn,
                                                 !.is_main_server = args.main_server,
                                                 !.client_args =
                                                     Some(args),
                                                 !.idx = 1]]
    /\ UNCHANGED <<pureVars, indexVars, buildVars, startVars, lockVars, additional_dirs, links, peers>>

\* server_main, lines 461-480: accept, read_from_pipe, client_pipe.unwrap();
\* connect to the reply channel and, when that succeeds, write the local
\* results and the server-to-client sentinel on it and drop it; then clear
\* main_server in the copy to forward
ServerAccept(s) ==
    /\ servers[s].pc = "accept"
    /\ incoming[s] # <<>>
    /\ LET conn == Head(incoming[s])
           r == read_from_pipe(conn.frame)
       IN  IF r.panic THEN Crash(s, "decode") /\ UNCHANGED reply
           ELSE IF unwrap(r.value).client_pipe = None
           THEN Crash(s, "no_pipe") /\ UNCHANGED reply
           ELSE LET args == unwrap(r.value)
                    c == unwrap(args.client_pipe)
                    q == IF args.files
                         THEN [out |-> list_files(<<ServerKey(s)>>), panic |-> FALSE]
                         ELSE find(ServerFiles(s), <<ServerKey(s)>>, args, TRUE)
                IN  /\ incoming' = [incoming EXCEPT ![s] = Tail(@)]
                    /\ reply' = IF Connectable(c)
                                THEN [reply EXCEPT ![c] =
                                         Append(@, q.out \o <<SERVER_TO_CLIENT_ENDING_MSG>>)]
                                ELSE reply
                    /\ servers' = [servers EXCEPT
                                      ![s] = [Handler("fanout") EXCEPT
                                                 !.conn = conn,
                                                 !.is_main_server = args.main_server,
                                                 !.client_args =
                                                     Some([args EXCEPT !.main_server = FALSE]),
                                                 !.idx = 1]]
    /\ UNCHANGED <<pureVars, indexVars, buildVars, startVars, lockVars, additional_dirs, links, peers>>

\* ServerDial going on to the next child without reading from this one
ServerDial_no_wait(s) ==
    /\ servers[s].pc = "fanout"
    /\ servers[s].idx <= Len(additional_dirs[s])
    /\ LET child == additional_dirs[s][servers[s].idx] IN
       IF Listening(child)
       THEN /\ incoming' = [incoming EXCEPT ![child] =
                               Append(@, [peer |-> servers[s].conn.peer, parent |-> Some(s),
                                          frame |-> write_to_pipe(unwrap(servers[s].client_args))])]
            /\ links' = [links EXCEPT ![child] = [open |-> TRUE, back |-> <<>>]]
            /\ servers' = [servers EXCEPT ![s].idx = @ + 1,
                                          ![s].log = Append(@, <<"dial", child>>)]
       ELSE /\ servers' = [servers EXCEPT ![s].idx = @ + 1,
                                          ![s].log = Append(@, <<"fail", child>>)]
            /\ UNCHANGED <<incoming, links>>
    /\ UNCHANGED <<pureVars, indexVars, buildVars, startVars, lockVars, additional_dirs, peers, reply>>

\* server_main, lines 481-484: connect to the next child and forward the
\* request; a child that cannot be connected to is passed over
ServerDial(s) ==
    /\ servers[s].pc = "fanout"
    /\ servers[s].idx <= Len(additional_dirs[s])
    /\ LET child == additional_dirs[s][servers[s].idx] IN
       IF Listening(child)
       THEN /\ incoming' = [incoming EXCEPT ![child] =
                               Append(@, [peer |-> servers[s].conn.peer, parent |-> Some(s),
                                          frame |-> write_to_pipe(unwrap(servers[s].client_args))])]
            /\ links' = [links EXCEPT ![child] = [open |-> TRUE, back |-> <<>>]]
            /\ servers' = [servers EXCEPT ![s].pc = "wait",
                                          ![s].log = Append(@, <<"dial", child>>)]
       ELSE /\ servers' = [servers EXCEPT ![s].idx = @ + 1,
                                          ![s].log = Append(@, <<"fail", child>>)]
            /\ UNCHANGED <<incoming, links>>
    /\ UNCHANGED <<pureVars, indexVars, buildVars, startVars, lockVars, additional_dirs, peers, reply>>

\* server_main, lines 485-494: read lines from the child until the
\* server-to-server sentinel, then drop the socket
ServerWait(s) ==
    /\ servers[s].pc = "wait"
    /\ LET child == additional_dirs[s][servers[s].idx] IN
       /\ \E i \in 1 .. Len(links[child].back) :
             trim(links[child].back[i]) = SERVER_TO_SERVER_ENDING_MSG
       /\ links' = [links EXCEPT ![child] = NoLink]
       /\ servers' = [servers EXCEPT ![s].pc = "fanout", ![s].idx = @ + 1,
                                     ![s].log = Append(@, <<"signal", child>>)]
    /\ UNCHANGED <<pureVars, indexVars, buildVars, startVars, lockVars, additional_dirs, incoming, peers, reply>>

\* ServerFinish writing the final sentinel whether or not the request was
\* marked main_server
ServerFinish_always_main(s) ==
    /\ servers[s].pc = "fanout"
    /\ servers[s].idx > Len(additional_dirs[s])
    /\ LET conn == servers[s].conn
           c == unwrap(unwrap(servers[s].client_args).client_pipe)
       IN  /\ links' = IF conn.parent # None /\ links[s].open
                       THEN [links EXCEPT ![s].back = Append(@, SERVER_TO_SERVER_ENDING_MSG)]
                       ELSE links
           /\ IF Connectable(c)
              THEN /\ servers' = [servers EXCEPT ![s].pc = "accept",
                                                 ![s].log = Append(@, <<"end", s>>)]
                   /\ reply' = [reply EXCEPT ![c] = Append(@, <<MAIN_SERVER_ENDING_MSG>>)]
                   /\ UNCHANGED incoming
              ELSE /\ Crash(s, "reply_connect")
                   /\ UNCHANGED reply
    /\ UNCHANGED <<pureVars, indexVars, buildVars, startVars, lockVars, additional_dirs, peers>>

\* server_main, lines 496-506: sleep, write the server-to-server sentinel on
\* the request socket, and when the request was marked main_server connect
\* to the reply channel again, unwrap the connection and write the final
\* sentinel
ServerFinish(s) ==
    /\ servers[s].pc = "fanout"
    /\ servers[s].idx > Len(additional_dirs[s])
    /\ LET conn == servers[s].conn
           c == unwrap(unwrap(servers[s].client_args).client_pipe)
       IN  /\ links' = IF conn.parent # None /\ links[s].open
                       THEN [links EXCEPT ![s].back = Append(@, SERVER_TO_SERVER_ENDING_MSG)]
                       ELSE links
           /\ IF ~servers[s].is_main_server
              THEN /\ servers' = [servers EXCEPT ![s].pc = "accept",
                                                 ![s].log = Append(@, <<"end", s>>)]
                   /\ UNCHANGED <<incoming, reply>>
              ELSE IF Connectable(c)
              THEN /\ servers' = [servers EXCEPT ![s].pc = "accept",
                                                 ![s].log = Append(@, <<"end", s>>)]
                   /\ reply' = [reply EXCEPT ![c] = Append(@, <<MAIN_SERVER_ENDING_MSG>>)]
                   /\ UNCHANGED incoming
              ELSE /\ Crash(s, "reply_connect")
                   /\ UNCHANGED reply
    /\ UNCHANGED <<pureVars, indexVars, buildVars, startVars, lockVars, additional_dirs, peers>>

ServerNext ==
    \E s \in Servers :
        ServerAccept(s) \/ ServerDial(s) \/ ServerWait(s) \/ ServerFinish(s)

ClientNext == \E c \in Clients : ClientSend(c) \/ ClientReadConn(c) \/ ClientDie(c)

Next == ServerNext \/ ClientNext

Spec == Init /\ [][Next]_vars

\* the lines delivered to a reply channel, connection after connection
RECURSIVE Flatten(_)
Flatten(conns) == IF conns = <<>> THEN <<>> ELSE Head(conns) \o Flatten(Tail(conns))

CountOf(q, msg) == Cardinality({i \in 1 .. Len(q) : trim(q[i]) = msg})

\* the peer sent what client_main sends and holds (or held) its reply channel
RealClient(c) ==
    /\ peers[c].pc \notin {"start"}
    /\ ~peers[c].ghost
    /\ WellFormed(peers[c].frame)
    /\ unwrap(peers[c].frame.record).main_server

\* every child the entry-point server configures runs
AllReachable == \A k \in Range(additional_dirs[0]) : Listening(k)

\* the servers a request to the entry-point server reaches, in order
Chain == <<0>> \o additional_dirs[0]

At(log, entry) == {j \in 1 .. Len(log) : log[j] = entry}

\* C2 as stated: the connection to child k+1 is opened only after the
\* server-to-server sentinel of child k was read, and the server writes its
\* own sentinel only after the last child has signalled.
C2_SerialFanOutStrict ==
    \A s \in Servers :
        LET dirs == additional_dirs[s]
            log == servers[s].log
        IN  /\ \A i \in 1 .. (Len(dirs) - 1) :
                  \A j \in At(log, <<"dial", dirs[i + 1]>>) :
                     \E h \in At(log, <<"signal", dirs[i]>>) : h < j
            /\ \A j \in At(log, <<"end", s>>) :
                  dirs # <<>> => \E h \in At(log, <<"signal", dirs[Len(dirs)]>>) : h < j

\* C2: the children are dialed one after another in configuration order: the
\* connection to child k+1 is opened only after the server-to-server sentinel
\* of child k was read or the connection to child k failed, and the server
\* writes its own sentinel only after that holds of the last child.
C2_SerialFanOut ==
    \A s \in Servers :
        LET dirs == additional_dirs[s]
            log == servers[s].log
            Settled(i, j) ==
                \E h \in At(log, <<"signal", dirs[i]>>) \cup At(log, <<"fail", dirs[i]>>) :
                    h < j
        IN  /\ \A i \in 1 .. Len(dirs) :
                  \A j \in At(log, <<"dial", dirs[i]>>) \cup At(log, <<"fail", dirs[i]>>) :
                     /\ \A g \in 1 .. (i - 1) : Settled(g, j)
                     /\ \A g \in (i + 1) .. Len(dirs) :
                           At(log, <<"dial", dirs[g]>>) \cup At(log, <<"fail", dirs[g]>>)
                              \subseteq {h \in 1 .. Len(log) : h > j}
            /\ \A i \in 1 .. Len(dirs) :
                  \A j \in At(log, <<"signal", dirs[i]>>) :
                     \E h \in At(log, <<"dial", dirs[i]>>) : h < j
            /\ \A j \in At(log, <<"end", s>>) :
                  \A i \in 1 .. Len(dirs) : Settled(i, j)

\* the entry-point server has dialed its second child after the first one
\* signalled, and has written its own sentinel after the second signalled
C2_Witness ==
    servers[0].log =
        << <<"dial", 1>>, <<"signal", 1>>, <<"dial", 2>>, <<"signal", 2>>, <<"end", 0>> >>

\* C3: a reply channel that cannot be connected to never crashes the server:
\* the request is abandoned and the server returns to its accept loop.
C3_DeadReplyChannelSurvived ==
    \A s \in Servers :
        ~(servers[s].pc = "crashed" /\ servers[s].cause = "reply_connect")

\* C4: a malformed request frame (a short length prefix or payload, a payload
\* that decodes to no request, a request naming no reply channel) makes the
\* server abandon that connection only; it keeps accepting.
C4_MalformedFrameAbandoned ==
    \A s \in Servers :
        ~(servers[s].pc = "crashed" /\ servers[s].cause \in {"decode", "no_pipe"})

\* the request the handler of server s received, as read_from_pipe decoded it
Received(s) == unwrap(read_from_pipe(servers[s].conn.frame).value)

\* a connection that carries the final sentinel is added to the reply channel of c
WritesMainEnd(c) ==
    /\ Len(reply'[c]) = Len(reply[c]) + 1
    /\ MAIN_SERVER_ENDING_MSG \in Range(reply'[c][Len(reply'[c])])

\* server s passes lines 496-506 and returns to its accept loop
Finishes(s) ==
    /\ servers[s].pc = "fanout"
    /\ servers[s].idx > Len(additional_dirs[s])
    /\ servers'[s].pc = "accept"

\* a request arrives at child k from a server: it decodes to the request that
\* server received but for main_server, which is false
C19_Forwarded ==
    \A k \in Children :
        Len(incoming'[k]) = Len(incoming[k]) + 1 =>
            LET e == incoming'[k][Len(incoming'[k])]
                r == read_from_pipe(e.frame)
            IN  \A s \in Servers :
                   e.parent = Some(s) =>
                      /\ servers[s].pc = "fanout"
                      /\ ~r.panic
                      /\ unwrap(r.value).main_server = FALSE
                      /\ \A f \in {"mode", "root", "client_pipe", "files", "word", "term"} :
                            unwrap(r.value)[f] = Received(s)[f]

\* the final sentinel is written by a server that finishes a request, and by
\* such a server exactly when the request it received had main_server true
C19_MainEndIffFlag ==
    /\ \A s \in Servers :
          Finishes(s) =>
             (Received(s).main_server <=> WritesMainEnd(unwrap(Received(s).client_pipe)))
    /\ \A c \in Clients :
          WritesMainEnd(c) =>
             \E s \in Servers : /\ Finishes(s)
                                /\ Received(s).main_server
                                /\ Received(s).client_pipe = Some(c)
                                /\ servers[s].conn.parent = None

\* the request a handler reached through forwarding holds has main_server false
C19_ForwardedNeverMain ==
    \A s \in Servers :
        (servers[s].pc \in {"fanout", "wait"} /\ servers[s].conn.parent # None) =>
            /\ ~Received(s).main_server
            /\ ~servers[s].is_main_server

\* C19: the request a server forwards to each child differs from the request
\* it received only in main_server (is_entry_point), which is false in the
\* forwarded copy, mode, root, client_pipe, files, word and term being
\* unchanged; a server writes `###main_server_end###` to the reply channel if
\* and only if the request it received had main_server true, so a server
\* reached through forwarding never writes it.
C19_ForwardedRequest ==
    []C19_ForwardedNeverMain /\ [][C19_Forwarded /\ C19_MainEndIffFlag]_vars

\* a request marked main_server went through the entry-point server and a
\* child: the child finished without the final sentinel, the entry-point
\* server wrote it
C19_Witness ==
    \E c \in Clients :
        /\ ~peers[c].ghost
        /\ WellFormed(peers[c].frame)
        /\ unwrap(peers[c].frame.record).main_server
        /\ additional_dirs[0] # <<>>
        /\ servers[1].log = << <<"end", 1>> >>
        /\ servers[1].conn.parent = Some(0)
        /\ <<"end", 0>> \in Range(servers[0].log)
        /\ servers[0].conn.peer = c
        /\ reply[c][Len(reply[c])] = <<MAIN_SERVER_ENDING_MSG>>
        /\ \A i \in 1 .. (Len(reply[c]) - 1) : MAIN_SERVER_ENDING_MSG \notin Range(reply[c][i])

-----------------------------------------------------------------------------
(* SpecStart: server_main's start-up, lines 400-408, in several server      *)
(* processes: the search for a bound ancestor name and the bind of the root *)
(* socket.  Here a path is the string --root carries, as PathBuf::from      *)
(* keeps it.                                                                *)

NStarters == 2          \* server processes that may be started

Starters == 1 .. NStarters

\* the values of --root: two spellings of a directory, two of a directory
\* below it, and a directory apart
RootArgs ==
    { <<"/", "r">>, <<"/", "r", "/">>, <<"/", "r", "/", "s">>,
      <<"/", "r", "/", "s", "/">>, <<"/", "q">> }

\* Path::components: the names between separators, empty ones dropped
RECURSIVE split_components(_, _)
split_components(s, cur) ==
    IF s = <<>> THEN (IF cur = <<>> THEN <<>> ELSE <<cur>>)
    ELSE IF Head(s) = "/"
    THEN (IF cur = <<>> THEN <<>> ELSE <<cur>>) \o split_components(Tail(s), <<>>)
    ELSE split_components(Tail(s), Append(cur, Head(s)))

components(path) == split_components(path, <<>>)

\* Path::parent: the path without its last component, None when it has none
parent(path) ==
    LET comps == components(path)
        lead == IF starts_with(path, <<"/">>) THEN <<"/">> ELSE <<>>
    IN  IF comps = <<>> THEN None
        ELSE Some(lead \o join(SubSeq(comps, 1, Len(comps) - 1), <<"/">>))

\* str::replace("\\", "/")
replace_backslash(s) == [i \in 1 .. Len(s) |-> IF s[i] = "\\" THEN "/" ELSE s[i]]

\* convert_path: the socket name of a path, a hash of the path's text with
\* the separators normalised; the hash is taken to be free of collisions
convert_path(path) == replace_backslash(path)

\* whether LocalSocketListener::bind(name) fails: the name is held, and the
\* error is then ErrorKind::PermissionDenied
bind_denied(name) == \E e \in sockets : e.name = name

Starter(pc) ==
    [pc |-> pc, root |-> <<>>, named_pipe_path |-> <<>>, existing |-> None,
     covered |-> {}]

InitStart ==
    /\ PureIdle
    /\ IndexIdle
    /\ BuildIdle
    /\ ServeIdle
    /\ LockIdle
    /\ sockets = {}
    /\ starters = [p \in Starters |-> Starter("idle")]

\* whether directory a is directory b or an ancestor of it
Covers(a, b) ==
    /\ Len(components(a)) <= Len(components(b))
    /\ SubSeq(components(b), 1, Len(components(a))) = components(a)

\* main, server_main lines 400-401: a server process is started with --root.
\* covered records the serving processes whose root is this root or an
\* ancestor of it.
StartServer(p) ==
    /\ starters[p].pc = "idle"
    /\ \E r \in RootArgs :
          starters' = [starters EXCEPT
                          ![p] = [Starter("probe") EXCEPT
                                     !.root = r,
                                     !.named_pipe_path = r,
                                     !.covered =
                                         {q \in Starters :
                                             /\ starters[q].pc = "serving"
                                             /\ Covers(starters[q].root, r)}]]
    /\ UNCHANGED <<pureVars, indexVars, buildVars, serveVars, lockVars, sockets>>

\* find_existing_pipe_name, line 331: bind the name of named_pipe_path; a
\* bind that is denied ends the search with that path
ProbeBind(p) ==
    /\ starters[p].pc = "probe"
    /\ IF bind_denied(convert_path(starters[p].named_pipe_path))
       THEN /\ starters' = [starters EXCEPT
                               ![p].pc = "refused",
                               ![p].existing = Some(starters[p].named_pipe_path)]
            /\ UNCHANGED sockets
       ELSE /\ starters' = [starters EXCEPT ![p].pc = "probing"]
            /\ sockets' = sockets \cup
                             {[name |-> convert_path(starters[p].named_pipe_path),
                               owner |-> p, root |-> FALSE]}
    /\ UNCHANGED <<pureVars, indexVars, buildVars, serveVars, lockVars>>

\* find_existing_pipe_name, lines 331-339: the listener just bound is dropped;
\* go on with the parent, or return None when there is none
ProbeDrop(p) ==
    /\ starters[p].pc = "probing"
    /\ sockets' = {e \in sockets : ~(e.owner = p /\ ~e.root)}
    /\ LET parent_path == parent(starters[p].named_pipe_path) IN
       starters' = IF parent_path = None
                   THEN [starters EXCEPT ![p].pc = "bind"]
                   ELSE [starters EXCEPT ![p].pc = "probe",
                                         ![p].named_pipe_path = unwrap(parent_path)]
    /\ UNCHANGED <<pureVars, indexVars, buildVars, serveVars, lockVars>>

\* server_main, line 408: bind the root socket and unwrap the result
BindRoot(p) ==
    /\ starters[p].pc = "bind"
    /\ IF bind_denied(convert_path(starters[p].root))
       THEN /\ starters' = [starters EXCEPT ![p].pc = "panicked"]
            /\ UNCHANGED sockets
       ELSE /\ starters' = [starters EXCEPT ![p].pc = "serving"]
            /\ sockets' = sockets \cup
                             {[name |-> convert_path(starters[p].root),
                               owner |-> p, root |-> TRUE]}
    /\ UNCHANGED <<pureVars, indexVars, buildVars, serveVars, lockVars>>

\* a serving process is ended; its listener goes with it
ServerExit(p) ==
    /\ starters[p].pc = "serving"
    /\ sockets' = {e \in sockets : e.owner # p}
    /\ starters' = [q \in Starters |->
                       IF q = p THEN [starters[q] EXCEPT !.pc = "exited"]
                       ELSE [starters[q] EXCEPT !.covered = @ \ {p}]]
    /\ UNCHANGED <<pureVars, indexVars, buildVars, serveVars, lockVars>>

NextStart ==
    \E p \in Starters :
        StartServer(p) \/ ProbeBind(p) \/ ProbeDrop(p) \/ BindRoot(p) \/ ServerExit(p)

SpecStart == InitStart /\ [][NextStart]_vars

\* C12: while a server is bound for root A, a server started for A or for a
\* directory below A finds the bound name, reports A as indexed and returns:
\* it never binds a root socket of its own (so it builds no index, spawns no
\* child and accepts nothing); and no two serving processes hold one name.
C12_OverlappingRootsRefused ==
    /\ \A p \in Starters :
          starters[p].covered # {} =>
             /\ starters[p].pc \in {"probe", "probing", "refused"}
             /\ starters[p].pc = "refused" =>
                   \E q \in starters[p].covered :
                      unwrap(starters[p].existing) = starters[q].root
    /\ \A p, q \in Starters :
          (p # q /\ starters[p].pc = "serving" /\ starters[q].pc = "serving") =>
             convert_path(starters[p].root) # convert_path(starters[q].root)

\* C12 for roots spelled without a trailing separator
C12_RefusedWhenSpelledAlike ==
    \A p \in Starters :
        (/\ starters[p].covered # {}
         /\ \A q \in starters[p].covered \cup {p} :
               ~ends_with(starters[q].root, <<"/">>)) =>
            starters[p].pc \in {"probe", "probing", "refused"}

-----------------------------------------------------------------------------
(* SpecLock: the published index behind its Mutex, server_main lines        *)
(* 439-449 and 466-472: the accept loop's thread queries it and the         *)
(* watcher's thread applies events to it, an entry or a path at a time      *)

\* idx and child: the loop of lines 481-495 and the child it reads from;
\* saw: where the watcher's thread was when that read began (history)
HandlerThread ==
    [pc |-> "idle", args |-> Args(None, FALSE, FALSE, FALSE, None), checked |-> FALSE,
     visited |-> <<>>, out |-> <<>>, before |-> EmptyMap,
     idx |-> 0, child |-> "none", saw |-> "none"]

WatcherThread == [pc |-> "idle", event |-> NoEvent, i |-> 1, before |-> EmptyMap]

\* the requests the accept loop's thread queries the index for
LockQueries == {Args(None, fl, FALSE, FALSE, Some(t)) : fl \in BOOLEAN, t \in QueryTerms}

\* the filter list of the server: the files a and b under the root pass
LockRuleLists == { << <<"*", "a", "*">>, <<"*", "b", "*">> >> }

\* the events the watcher delivers: one kind of each arm of handle_event
LockEvents == {e \in Events : e.kind \in {"Modify", "Remove"}}

InitLock ==
    /\ PureIdle
    /\ BuildIdle
    /\ ServeIdle
    /\ StartIdle
    /\ disk \in [IndexPaths -> {Absent, File(Some(<<"a">>))}]
    /\ filters \in {ParseAll(ls) : ls \in LockRuleLists}
    /\ files = BuiltIndex(disk, filters)
    /\ last = NoLast
    /\ gone = {}
    /\ index_mutex = None
    /\ handler = HandlerThread
    /\ watcher = WatcherThread

\* Mutex::lock: None while the mutex is held; "poisoned" after a holder panicked
lock(who) ==
    IF index_mutex = None THEN Some(who)
    ELSE IF index_mutex = Some("poisoned") THEN Some("poisoned")
    ELSE None

\* lock as if the mutex were free whoever holds it
lock_unguarded(who) == Some(who)

\* server_main, lines 468-471: indexer2.lock().unwrap() for list_files or find
HandlerLock ==
    /\ handler.pc \in {"idle", "done"}
    /\ lock("handler") # None
    /\ \E a \in LockQueries, c \in {TRUE} :
          IF lock("handler") = Some("poisoned")
          THEN /\ handler' = [HandlerThread EXCEPT !.pc = "panicked"]
               /\ UNCHANGED index_mutex
          ELSE /\ handler' = [HandlerThread EXCEPT !.pc = "query", !.args = a,
                                                   !.checked = c, !.before = files]
               /\ index_mutex' = lock("handler")
    /\ UNCHANGED <<pureVars, indexVars, buildVars, serveVars, startVars, watcher>>

\* list_files, lines 297-300, or find, lines 267-293, for the next entry the
\* map's iterator yields; a panic in find unwinds through the guard and
\* poisons the mutex
HandlerEmit ==
    /\ handler.pc = "query"
    /\ \E key \in DOMAIN files \ Range(handler.visited) :
          LET r == IF handler.args.files
                   THEN [out |-> list_files(<<key>>), panic |-> FALSE]
                   ELSE find(files, <<key>>, handler.args, handler.checked)
          IN  /\ handler' = [handler EXCEPT
                                !.visited = Append(@, key),
                                !.out = @ \o r.out,
                                !.pc = IF r.panic THEN "panicked" ELSE "query"]
              /\ index_mutex' = IF r.panic THEN Some("poisoned") ELSE index_mutex
    /\ UNCHANGED <<pureVars, indexVars, buildVars, serveVars, startVars, watcher>>

\* HandlerUnlock with the guard bound to a name that lives on past the statement
HandlerUnlock_keep_guard ==
    /\ handler.pc = "query"
    /\ DOMAIN files \ Range(handler.visited) = {}
    /\ handler' = [handler EXCEPT !.pc = "done"]
    /\ UNCHANGED <<pureVars, indexVars, buildVars, serveVars, startVars, index_mutex, watcher>>

\* the end of the statement of line 469 or 471: the guard is dropped
HandlerUnlock ==
    /\ handler.pc = "query"
    /\ DOMAIN files \ Range(handler.visited) = {}
    /\ handler' = [handler EXCEPT !.pc = "done"]
    /\ index_mutex' = None
    /\ UNCHANGED <<pureVars, indexVars, buildVars, serveVars, startVars, watcher>>

\* the watcher delivers an event to the callback of line 443
WatcherEvent ==
    /\ watcher.pc = "idle"
    /\ \E e \in LockEvents : watcher' = [WatcherThread EXCEPT !.pc = "lock", !.event = e]
    /\ UNCHANGED <<pureVars, indexVars, buildVars, serveVars, startVars, index_mutex, handler>>

\* line 445: indexer2.lock().unwrap(), taking the mutex without waiting for it
WatcherLock_unguarded ==
    /\ watcher.pc = "lock"
    /\ lock_unguarded("watcher") # None
    /\ IF lock_unguarded("watcher") = Some("poisoned")
       THEN /\ watcher' = [watcher EXCEPT !.pc = "panicked"]
            /\ UNCHANGED index_mutex
       ELSE /\ watcher' = [watcher EXCEPT !.pc = "apply", !.i = 1, !.before = files]
            /\ index_mutex' = lock_unguarded("watcher")
    /\ UNCHANGED <<pureVars, indexVars, buildVars, serveVars, startVars, handler>>

\* line 445: indexer2.lock().unwrap()
WatcherLock ==
    /\ watcher.pc = "lock"
    /\ lock("watcher") # None
    /\ IF lock("watcher") = Some("poisoned")
       THEN /\ watcher' = [watcher EXCEPT !.pc = "panicked"]
            /\ UNCHANGED index_mutex
       ELSE /\ watcher' = [watcher EXCEPT !.pc = "apply", !.i = 1, !.before = files]
            /\ index_mutex' = lock("watcher")
    /\ UNCHANGED <<pureVars, indexVars, buildVars, serveVars, startVars, handler>>

\* handle_event, lines 306-313 or 316-321, for the next path of the event
WatcherApply ==
    /\ watcher.pc = "apply"
    /\ watcher.i <= Len(watcher.event.paths)
    /\ files' = handle_event(files, [watcher.event EXCEPT !.paths = <<@[watcher.i]>>],
                             filters, Root, disk)
    /\ watcher' = [watcher EXCEPT !.i = @ + 1]
    /\ UNCHANGED <<pureVars, buildVars, serveVars, startVars, disk, filters, last, gone,
                   index_mutex, handler>>

\* the end of the statement of line 445: the guard is dropped
WatcherUnlock ==
    /\ watcher.pc = "apply"
    /\ watcher.i > Len(watcher.event.paths)
    /\ watcher' = [watcher EXCEPT !.pc = "idle"]
    /\ index_mutex' = None
    /\ UNCHANGED <<pureVars, indexVars, buildVars, serveVars, startVars, handler>>

NextLock ==
    \/ FsWrite
    \/ FsRemove
    \/ HandlerLock
    \/ HandlerEmit
    \/ HandlerUnlock
    \/ WatcherEvent
    \/ WatcherLock
    \/ WatcherApply
    \/ WatcherUnlock

SpecLock == InitLock /\ [][NextLock]_vars

\* what a query yields over a map, its entries taken in a given order
QueryResult(map, order, args, checked) ==
    IF args.files THEN list_files(order) ELSE find(map, order, args, checked).out

\* C13: at most one thread is at the published index at a time: a query
\* (find or list_files) and an event (handle_event) each run from start to
\* end as the holder of the one index mutex, so no event is applied between
\* two result lines of a query (the index stays as the query found it, and the
\* lines are those of that index) and no query starts on a half-applied event.
C13_IndexMutex ==
    /\ handler.pc = "query" =>
          /\ index_mutex = Some("handler")
          /\ watcher.pc # "apply"
          /\ files = handler.before
    /\ watcher.pc = "apply" =>
          /\ index_mutex = Some("watcher")
          /\ handler.pc # "query"
    /\ handler.pc \in {"query", "done"} =>
          handler.out = QueryResult(handler.before, handler.visited,
                                    handler.args, handler.checked)
    /\ handler.pc = "done" => Range(handler.visited) = DOMAIN handler.before

\* a query is between the result lines of two files while the watcher holds
\* an event that would change the index and waits for the mutex
C13_Witness ==
    /\ handler.pc = "query"
    /\ Len(handler.visited) = 1
    /\ handler.out # <<>>
    /\ Cardinality(DOMAIN files) = 2
    /\ watcher.pc = "lock"
    /\ handle_event(files, watcher.event, filters, Root, disk) # files

-----------------------------------------------------------------------------
(* SpecHold: one pass after another of the accept loop's body, lines         *)
(* 461-507, beside the watcher's thread: the query under the index mutex,    *)
(* then the sentinel to the client, the fan-out to the children, the sleep   *)
(* and the closing sentinels                                                 *)

\* the requests the accept loop reads: list_files or find, marked main_server or not
HoldQueries == {Args(Some(1), fl, FALSE, ms, Some(t)) : fl \in BOOLEAN, ms \in BOOLEAN,
                                                        t \in QueryTerms}

\* the entries of additional_dirs
HoldDirs == 1 .. NChildren

\* lines 461-471: accept, read_from_pipe, connect to the reply channel and,
\* when that succeeds, indexer2.lock().unwrap() for list_files or find; when it
\* fails the body goes on at line 477
HandlerAccept ==
    /\ handler.pc = "idle"
    /\ \E a \in HoldQueries, connected \in BOOLEAN :
          IF ~connected
          THEN /\ handler' = [HandlerThread EXCEPT !.pc = "fanout", !.args = a, !.idx = 1]
               /\ UNCHANGED index_mutex
          ELSE /\ lock("handler") # None
               /\ IF lock("handler") = Some("poisoned")
                  THEN /\ handler' = [HandlerThread EXCEPT !.pc = "panicked"]
                       /\ UNCHANGED index_mutex
                  ELSE /\ handler' = [HandlerThread EXCEPT !.pc = "query", !.args = a,
                                                           !.checked = TRUE, !.before = files]
                       /\ index_mutex' = lock("handler")
    /\ UNCHANGED <<pureVars, indexVars, buildVars, serveVars, startVars, watcher>>

\* lines 473-480: the server-to-client sentinel, the drop of the reply
\* connection, main_server cleared in the copy to forward
HandlerReplyEnd ==
    /\ handler.pc = "done"
    /\ handler' = [handler EXCEPT !.pc = "fanout", !.idx = 1]
    /\ UNCHANGED <<pureVars, indexVars, buildVars, serveVars, startVars, index_mutex, watcher>>

\* lines 481-484: connect to the next child and write the request to it; the
\* connect may fail, and a child connected to may answer later or never
HandlerDial ==
    /\ handler.pc = "fanout"
    /\ handler.idx \in HoldDirs
    /\ \E c \in {"fail", "silent", "mute"} :
          handler' = IF c = "fail"
                     THEN [handler EXCEPT !.idx = @ + 1]
                     ELSE [handler EXCEPT !.pc = "wait", !.child = c, !.saw = watcher.pc]
    /\ UNCHANGED <<pureVars, indexVars, buildVars, serveVars, startVars, index_mutex, watcher>>

\* the child writes its server-to-server sentinel (line 499 in the child)
ChildSignal ==
    /\ handler.pc = "wait"
    /\ handler.child = "silent"
    /\ handler' = [handler EXCEPT !.child = "answered"]
    /\ UNCHANGED <<pureVars, indexVars, buildVars, serveVars, startVars, index_mutex, watcher>>

\* lines 485-494: read_line until the server-to-server sentinel is read
HandlerWait ==
    /\ handler.pc = "wait"
    /\ handler.child = "answered"
    /\ handler' = [handler EXCEPT !.pc = "fanout", !.idx = @ + 1, !.child = "none",
                                  !.saw = "none"]
    /\ UNCHANGED <<pureVars, indexVars, buildVars, serveVars, startVars, index_mutex, watcher>>

\* line 497: thread::sleep
HandlerSleep ==
    /\ handler.pc = "fanout"
    /\ handler.idx \notin HoldDirs
    /\ handler' = [handler EXCEPT !.pc = "sleep"]
    /\ UNCHANGED <<pureVars, indexVars, buildVars, serveVars, startVars, index_mutex, watcher>>

\* lines 499-500: the server-to-server sentinel on the request socket
HandlerSignal ==
    /\ handler.pc = "sleep"
    /\ handler' = [handler EXCEPT !.pc = "signalled"]
    /\ UNCHANGED <<pureVars, indexVars, buildVars, serveVars, startVars, index_mutex, watcher>>

\* lines 501-507: for a request marked main_server connect to the reply
\* channel again, unwrap the connection and write the final sentinel; then
\* the next pass of the accept loop
HandlerMainEnd ==
    /\ handler.pc = "signalled"
    /\ \E connected \in BOOLEAN :
          handler' = IF handler.args.main_server /\ ~connected
                     THEN [HandlerThread EXCEPT !.pc = "panicked"]
                     ELSE HandlerThread
    /\ UNCHANGED <<pureVars, indexVars, buildVars, serveVars, startVars, index_mutex, watcher>>

NextHold ==
    \/ HandlerAccept
    \/ HandlerEmit
    \/ HandlerUnlock
    \/ HandlerReplyEnd
    \/ HandlerDial
    \/ ChildSignal
    \/ HandlerWait
    \/ HandlerSleep
    \/ HandlerSignal
    \/ HandlerMainEnd
    \/ WatcherEvent
    \/ WatcherLock
    \/ WatcherApply
    \/ WatcherUnlock

SpecHold == InitLock /\ [][NextHold]_vars

\* where the handler is after its local call: writing a sentinel, connecting
\* to or writing to a child, waiting on a child, sleeping
AfterQuery == {"done", "fanout", "wait", "sleep", "signalled"}

\* C21: the request handler holds the index mutex only for the duration of
\* its local list_files or find call: it never holds it while connecting to,
\* writing to or waiting on a child server, while sleeping, or while writing
\* any sentinel, so the watcher thread can acquire the mutex and apply events
\* while the handler is blocked on a child, even one that never answers.
C21_MutexOnlyForQuery ==
    /\ index_mutex = Some("handler") <=> handler.pc = "query"
    /\ handler.pc \in AfterQuery =>
          /\ index_mutex \in {None, Some("watcher")}
          /\ watcher.pc = "lock" =>
                /\ lock("watcher") = Some("watcher")
                /\ ENABLED WatcherLock
          /\ watcher.pc = "apply" => ENABLED (WatcherApply \/ WatcherUnlock)

\* the handler waits on a child that never answers; the watcher, which had no
\* event when the wait began, has since taken the mutex and changed the index
C21_Witness ==
    /\ handler.pc = "wait"
    /\ handler.child = "mute"
    /\ handler.visited # <<>>
    /\ handler.saw = "idle"
    /\ watcher.pc = "apply"
    /\ index_mutex = Some("watcher")
    /\ watcher.i > 1
    /\ files # watcher.before

-----------------------------------------------------------------------------
(* SpecReply: the response stream of one connection to a reply channel:     *)
(* what server_main writes at lines 468-474 for an index of one file, and   *)
(* what client_main's loop of lines 533-545 makes of it                     *)

Sentinels ==
    {SERVER_TO_CLIENT_ENDING_MSG, SERVER_TO_SERVER_ENDING_MSG, MAIN_SERVER_ENDING_MSG}

\* write_all(line) followed by write(b"\n"), for each line in turn
RECURSIVE write_lines(_)
write_lines(ls) ==
    IF ls = <<>> THEN <<>> ELSE Head(ls) \o <<"\n">> \o write_lines(Tail(ls))

\* BufRead::read_line until the stream ends: the stream cut after each "\n",
\* and what follows the last "\n", if anything
read_lines(bytes) ==
    LET ends == SelectSeq([i \in 1 .. Len(bytes) |-> i], LAMBDA i : bytes[i] = "\n")
        from(k) == IF k = 1 THEN 1 ELSE ends[k - 1] + 1
        whole == [k \in 1 .. Len(ends) |-> SubSeq(bytes, from(k), ends[k] - 1)]
        rest == SubSeq(bytes, from(Len(ends) + 1), Len(bytes))
    IN  IF rest = <<>> THEN whole ELSE Append(whole, rest)

\* the loop of lines 533-545 over the lines of one connection: the lines
\* printed, the line the loop breaks at (0 if none) and is_done
client_read(conn) ==
    LET stop == FirstSentinel(conn)
        body == SubSeq(conn, 1, IF stop = 0 THEN Len(conn) ELSE stop - 1)
    IN  [printed |-> SelectSeq([i \in 1 .. Len(body) |-> trim(body[i])],
                               LAMBDA l : l # <<>>),
         stop |-> stop,
         is_done |-> stop # 0 /\ trim(conn[stop]) = MAIN_SERVER_ENDING_MSG]

\* file names: a plain one, and names that hold a line break
ReplyNames ==
    {<<"a">>} \cup {<<"b", "\n">> \o m : m \in {SERVER_TO_CLIENT_ENDING_MSG,
                                                MAIN_SERVER_ENDING_MSG}}

\* file contents made of the sentinels
ReplyTexts ==
    {<<"a">>, <<"\n">>}
        \cup UNION {{m, <<" ">> \o m \o <<" ">>, <<"a", "\n">> \o m \o <<"\n">>} :
                       m \in Sentinels}

ReplyTerms == {<<>>, <<"a">>, <<"#">>} \cup Sentinels

InitReply ==
    /\ \E n \in ReplyNames, v \in ReplyTexts, t \in ReplyTerms,
          fl \in BOOLEAN, w \in BOOLEAN, c \in BOOLEAN :
          call = [fn |-> "reply", files |-> ((Root \o <<n>>) :> v),
                  order |-> <<Root \o <<n>>>>,
                  args |-> Args(None, fl, w, FALSE, Some(t)), checked |-> c,
                  read |-> None]
    /\ ret = None
    /\ IndexIdle
    /\ BuildIdle
    /\ StartIdle
    /\ LockIdle
    /\ ServeIdle

\* server_main, lines 468-474: the lines of list_files or find, then the
\* server-to-client sentinel; a panic in find ends the stream before it
WriteReply ==
    /\ call.fn = "reply"
    /\ ret = None
    /\ LET q == IF call.args.files
                THEN [out |-> list_files(call.order), panic |-> FALSE]
                ELSE find(call.files, call.order, call.args, call.checked)
       IN  ret' = Some([results |-> write_lines(q.out),
                        stream |-> write_lines(q.out) \o
                                     (IF q.panic THEN <<>>
                                      ELSE write_lines(<<SERVER_TO_CLIENT_ENDING_MSG>>)),
                        panic |-> q.panic])
    /\ UNCHANGED <<call, indexVars, buildVars, startVars, lockVars, serveVars>>

\* client_main, lines 533-545, on that connection
ReadReply ==
    /\ call.fn = "reply"
    /\ ret # None
    /\ call.read = None
    /\ call' = [call EXCEPT !.read = Some(client_read(read_lines(unwrap(ret).stream)))]
    /\ UNCHANGED <<ret, indexVars, buildVars, startVars, lockVars, serveVars>>

NextReply == WriteReply \/ ReadReply

SpecReply == InitReply /\ [][NextReply]_vars

\* C14: no result line of find or list_files is, once trimmed, one of the
\* three sentinels, whatever the indexed file holds: the client breaks off
\* reading the connection at the sentinel the server wrote after the results,
\* not before, and does not take the results for the end of the request.
C14_SentinelUniqueness ==
    (call.fn = "reply" /\ ret # None) =>
        /\ \A l \in Range(read_lines(unwrap(ret).results)) : trim(l) \notin Sentinels
        /\ (call.read # None /\ ~unwrap(ret).panic) =>
              /\ unwrap(call.read).stop = Len(read_lines(unwrap(ret).stream))
              /\ ~unwrap(call.read).is_done

\* C14 for indexed paths that hold no line break
C14_ContentsNeverForge ==
    (call.fn = "reply" /\ ret # None /\ ~contains(display(call.order[1]), <<"\n">>)) =>
        /\ \A l \in Range(read_lines(unwrap(ret).results)) : trim(l) \notin Sentinels
        /\ (call.read # None /\ ~unwrap(ret).panic) =>
              /\ unwrap(call.read).stop = Len(read_lines(unwrap(ret).stream))
              /\ ~unwrap(call.read).is_done

-----------------------------------------------------------------------------
(* SpecFrame: a request frame byte by byte: write_to_pipe's length prefix   *)
(* and bincode payload, and read_from_pipe's reading of them.  The Frame of *)
(* the wire section sums these bytes up as whole or short; here they are    *)
(* spelled out.  A byte is a number in 0 .. 255.                            *)

\* the UTF-8 bytes of the characters that occur in requests
CharCodes == [c \in {"a", "b", "/", "r", " "} |->
                 CASE c = "a" -> 97 [] c = "b" -> 98 [] c = "/" -> 47
                   [] c = "r" -> 114 [] c = " " -> 32]

as_bytes(str) == [i \in 1 .. Len(str) |-> CharCodes[str[i]]]

Fail == [ok |-> FALSE, val |-> None, next |-> 0]

\* String::from_utf8 over those characters
from_utf8(bytes) ==
    IF \A i \in 1 .. Len(bytes) : \E c \in DOMAIN CharCodes : CharCodes[c] = bytes[i]
    THEN Some([i \in 1 .. Len(bytes) |->
                  CHOOSE c \in DOMAIN CharCodes : CharCodes[c] = bytes[i]])
    ELSE None

\* usize::to_ne_bytes and usize::from_ne_bytes: eight bytes, the same order
\* in the writer and in the reader (little-endian here)
RECURSIVE le_bytes(_, _)
le_bytes(n, k) == IF k = 0 THEN <<>> ELSE <<n % 256>> \o le_bytes(n \div 256, k - 1)

to_ne_bytes(n) == le_bytes(n, 8)

RECURSIVE from_le_bytes(_)
from_le_bytes(b) == IF b = <<>> THEN 0 ELSE Head(b) + 256 * from_le_bytes(Tail(b))

from_ne_bytes(b) == from_le_bytes(b)

\* bincode's variable-length integer of config::standard(): one byte below
\* 251, else the marker 251 and two little-endian bytes (below 65536)
encode_varint(n) == IF n < 251 THEN <<n>> ELSE <<251>> \o le_bytes(n, 2)

decode_varint(bytes, p) ==
    IF ~p.ok \/ p.next > Len(bytes) THEN Fail
    ELSE LET b == bytes[p.next] IN
         IF b < 251 THEN [ok |-> TRUE, val |-> b, next |-> p.next + 1]
         ELSE IF b = 251 /\ p.next + 2 <= Len(bytes)
         THEN [ok |-> TRUE, val |-> from_le_bytes(SubSeq(bytes, p.next + 1, p.next + 2)),
               next |-> p.next + 3]
         ELSE Fail

encode_bool(b) == IF b THEN <<1>> ELSE <<0>>

decode_bool(bytes, p) ==
    IF ~p.ok \/ p.next > Len(bytes) \/ bytes[p.next] \notin {0, 1} THEN Fail
    ELSE [ok |-> TRUE, val |-> bytes[p.next] = 1, next |-> p.next + 1]

encode_string(str) == encode_varint(Len(as_bytes(str))) \o as_bytes(str)

decode_string(bytes, p) ==
    LET n == decode_varint(bytes, p) IN
    IF ~n.ok \/ n.next + n.val - 1 > Len(bytes) THEN Fail
    ELSE LET str == from_utf8(SubSeq(bytes, n.next, n.next + n.val - 1)) IN
         IF str = None THEN Fail
         ELSE [ok |-> TRUE, val |-> unwrap(str), next |-> n.next + n.val]

\* Option<String>: the byte 0, or the byte 1 and the string
encode_option(o) == IF o = None THEN <<0>> ELSE <<1>> \o encode_string(unwrap(o))

decode_option(bytes, p) ==
    IF ~p.ok \/ p.next > Len(bytes) THEN Fail
    ELSE IF bytes[p.next] = 0 THEN [ok |-> TRUE, val |-> None, next |-> p.next + 1]
    ELSE IF bytes[p.next] = 1
    THEN LET str == decode_string(bytes, [ok |-> TRUE, next |-> p.next + 1]) IN
         IF str.ok THEN [str EXCEPT !.val = Some(@)] ELSE Fail
    ELSE Fail

\* enum OperatingMode: the index of the variant
encode_mode(m) == encode_varint(IF m = "Server" THEN 0 ELSE 1)

decode_mode(bytes, p) ==
    LET n == decode_varint(bytes, p) IN
    IF ~n.ok \/ n.val \notin {0, 1} THEN Fail
    ELSE [n EXCEPT !.val = IF n.val = 0 THEN "Server" ELSE "Client"]

\* bincode::encode_to_vec of Args with its fields dropped after word
encode_to_vec_short(v) ==
    encode_mode(v.mode) \o encode_option(v.root) \o encode_option(v.client_pipe)
        \o encode_bool(v.files) \o encode_bool(v.word)

\* bincode::encode_to_vec of Args, as #[derive(Encode)] writes it: the fields
\* in the order of their declaration
encode_to_vec(v) ==
    encode_mode(v.mode) \o encode_option(v.root) \o encode_option(v.client_pipe)
        \o encode_bool(v.files) \o encode_bool(v.word) \o encode_bool(v.main_server)
        \o encode_option(v.term)

\* bincode::decode_from_slice to Args, as #[derive(Decode)] reads it; bytes
\* after the last field are left alone
decode_from_slice(bytes) ==
    LET mode == decode_mode(bytes, [ok |-> TRUE, next |-> 1])
        root == decode_option(bytes, mode)
        client_pipe == decode_option(bytes, root)
        fls == decode_bool(bytes, client_pipe)
        word == decode_bool(bytes, fls)
        main_server == decode_bool(bytes, word)
        term == decode_option(bytes, main_server)
    IN  IF ~term.ok THEN None
        ELSE Some([mode |-> mode.val, root |-> root.val, client_pipe |-> client_pipe.val,
                   files |-> fls.val, word |-> word.val, main_server |-> main_server.val,
                   term |-> term.val])

\* write_to_pipe, lines 78-80, in bytes: the length of the encoding in eight
\* bytes, then the encoding; both writes are taken to write all they are given
write_frame(v) == to_ne_bytes(Len(encode_to_vec(v))) \o encode_to_vec(v)

\* Read::read_exact of n bytes: the bytes and what is left of the stream; a
\* stream that ends early leaves zeros in the buffer and the error is dropped
read_exact(stream, n) ==
    [buf |-> [i \in 1 .. n |-> IF i <= Len(stream) THEN stream[i] ELSE 0],
     rest |-> SubSeq(stream, n + 1, Len(stream))]

\* read_from_pipe, lines 84-89, in bytes: the record, whether the unwrap of
\* line 89 panics, the length read and what is left of the stream
read_frame(stream) ==
    LET head == read_exact(stream, 8)
        struct_len == from_ne_bytes(head.buf)
        payload == read_exact(head.rest, struct_len)
        decoded == decode_from_slice(payload.buf)
    IN  [value |-> decoded, panic |-> decoded = None, struct_len |-> struct_len,
         rest |-> payload.rest]

\* the requests written: every field takes more than one value
FrameStrings == {None, Some(<<>>), Some(<<"/", "r">>), Some(<<"a", " ", "b">>)}

FrameArgs ==
    [mode : {"Server", "Client"}, root : {None, Some(<<"/", "r">>)},
     client_pipe : FrameStrings, files : BOOLEAN, word : BOOLEAN,
     main_server : BOOLEAN, term : FrameStrings]

\* the bytes that follow the frame on the stream: none, or a further message
FrameFollowing == {<<>>, <<1, 0, 7>>}

InitFrame ==
    /\ \E v \in FrameArgs, f \in FrameFollowing :
          call = [fn |-> "frame", v |-> v, following |-> f, read |-> None]
    /\ ret = None
    /\ IndexIdle
    /\ BuildIdle
    /\ StartIdle
    /\ LockIdle
    /\ ServeIdle

\* the writer's side: write_to_pipe(v), then the bytes that follow
WriteFrame ==
    /\ call.fn = "frame"
    /\ ret = None
    /\ ret' = Some(write_frame(call.v) \o call.following)
    /\ UNCHANGED <<call, indexVars, buildVars, startVars, lockVars, serveVars>>

\* the reader's side: read_from_pipe
ReadFrame ==
    /\ call.fn = "frame"
    /\ ret # None
    /\ call.read = None
    /\ call' = [call EXCEPT !.read = Some(read_frame(unwrap(ret)))]
    /\ UNCHANGED <<ret, indexVars, buildVars, startVars, lockVars, serveVars>>

NextFrame == WriteFrame \/ ReadFrame

SpecFrame == InitFrame /\ [][NextFrame]_vars

\* C15: request framing round-trips: read_from_pipe of what write_to_pipe
\* wrote for a record r yields r; the length prefix is the byte count of the
\* payload, so the reader takes exactly the one frame off the stream and
\* leaves every byte that follows it.
C15_FramingRoundTrip ==
    /\ (call.fn = "frame" /\ ret # None) =>
          /\ Len(unwrap(ret)) >= 8
          /\ from_ne_bytes(SubSeq(unwrap(ret), 1, 8))
                = Len(unwrap(ret)) - 8 - Len(call.following)
    /\ (call.fn = "frame" /\ call.read # None) =>
          /\ ~unwrap(call.read).panic
          /\ unwrap(call.read).value = Some(call.v)
          /\ unwrap(call.read).rest = call.following

\* a request with a reply channel and a term has been written and read back,
\* with a further message behind it on the stream
C15_Witness ==
    /\ call.fn = "frame"
    /\ call.read # None
    /\ call.v.client_pipe = Some(<<"/", "r">>)
    /\ call.v.term = Some(<<"a", " ", "b">>)
    /\ call.v.main_server
    /\ call.v.root = None
    /\ call.following # <<>>
    /\ unwrap(call.read).struct_len = 14

=============================================================================
